---- MODULE Spec2Model ----
(***************************************************************************)
(* DualPi2QueueDisc (src/traffic-control/model/dual-pi2-queue-disc.cc):    *)
(* the dual-queue coupled AQM of RFC 9332 with the Wi-Fi pending-dequeue   *)
(* extension, as a state machine.                                          *)
(*                                                                         *)
(* Time is counted in milliseconds.  The double-valued quantities of the   *)
(* code are exact fixed-point rationals: m_baseProb is a multiple of       *)
(* 1/BaseOne and every other probability and both Recur counters are       *)
(* multiples of 1/One, One = BaseOne^2, so that p_C = base_prob^2 is       *)
(* exact.  Floating-point rounding is not modelled.                        *)
(* A failed NS_ASSERT_MSG / NS_ABORT_MSG / NS_FATAL_ERROR ends the program:*)
(* the handler leaves the state as it found it and records the message in  *)
(* aborted, after which no handler runs.                                   *)
(***************************************************************************)
EXTENDS Integers, Sequences, FiniteSets, TLC

\* ---------------------------------------------------------------- bounds
MaxPkts == 3        \* packets the traffic source offers in one run
MaxUpdates == 2     \* PI2 timer periods in one run
MaxBacklog == 24     \* packets the backlogged source offers in one run
MaxCalls == 6        \* consecutive Recur calls in one run
MaxStanding == 4     \* packets the source of a standing L4S queue offers

\* ------------------------------------------------------ program constants
CLASSIC == 0
L4S == 1
NONE == 2
FATAL == "Error in DRR logic (should be unreachable)"
WifiOverhead == 38

\* Attribute values (GetTypeId).  Three attributes are configured away from
\* their defaults: Mtu (default: taken from the device), QueueLimit (so that
\* a few packets fill the queue) and Tupdate (so that a queue standing for
\* two timer periods takes the controller into overload).
Mtu == 800
QueueLimit == 3000
Tupdate == 100          \* ms
Target == 15            \* ms
MinTh == 800            \* us
Range == 400            \* us
K == 2
SchedulingWeight == 9
DrrQuantum == 1500
\* m_alpha = 0.15 Hz and m_beta = 3 Hz applied to a delay in ms:
\* 0.15/1000 = AlphaNum/BaseOne, 3/1000 = BetaNum/BaseOne
BaseOne == 20000
AlphaNum == 3
BetaNum == 60
One == BaseOne * BaseOne
UsPerMs == 1000

\* ECN codepoints (tosByte & 0x3)
NotECT == 0
ECT1 == 1
ECT0 == 2
CE == 3

\* ------------------------------------------------------------ environment
\* The packets a traffic source offers: size, whether the item has a
\* readable DS field (an IP packet), and its ECN codepoint.
Ect1Big   == [size |-> 1400, ip |-> TRUE,  ecn |-> ECT1]
Ect1Small == [size |-> 800,  ip |-> TRUE,  ecn |-> ECT1]
CeSmall   == [size |-> 800,  ip |-> TRUE,  ecn |-> CE]
NotEctSmall == [size |-> 800,  ip |-> TRUE,  ecn |-> NotECT]
Ect0Big   == [size |-> 1400, ip |-> TRUE,  ecn |-> ECT0]
NoIpBig   == [size |-> 1400, ip |-> FALSE, ecn |-> NotECT]
PktKinds == {Ect1Big, Ect1Small, CeSmall, NotEctSmall, Ect0Big, NoIpBig}

\* The traffic mixes: the source of one run draws its packets from one mix.
Mixes ==
    { {Ect1Big, Ect1Small, CeSmall},
      {NotEctSmall, Ect0Big},
      {Ect1Big, NotEctSmall},
      {Ect1Small, Ect0Big},
      {CeSmall, NoIpBig} }

\* Byte budgets the downstream announces to PendingDequeueCallback.
PendingBytesSet == {0, 900, 2300}

\* The instants at which events run: those of the PI2 timer, and 1 ms after
\* the first.  The traffic source offers its packets during the first timer
\* period.
Instants == {0, 1} \cup { Tupdate * i : i \in 0..MaxUpdates }

NoItem == [id |-> 0, size |-> 0, ip |-> FALSE, ecn |-> 0, ecn0 |-> 0, ts |-> 0]

VARIABLES
    qC, qL,                 \* GetInternalQueue(CLASSIC), GetInternalQueue(L4S)
    sC, sL,                 \* m_classicStagingQueue, m_l4sStagingQueue
    baseProb, pC, pCL, pL,  \* m_baseProb (1/BaseOne); m_pC, m_pCL, m_pL (1/One)
    prevQ,                  \* m_prevQ (ms)
    classicCount, l4sCount, \* m_classicCount, m_l4sCount (1/One)
    llDeficit, classicDeficit, drrQueues,
    cLatencySample, lLatencySample, cBytesSample,
    disableLaqm, enableWifiClassicLatencyEstimator, aggBufferLimit,
    source,                 \* the packet kinds the traffic source of this run offers
    startTime,              \* m_startTime as attribute StartTime sets it (ms)
    disposed,               \* DoDispose has run
    recurRun,               \* a run of consecutive Recur calls on one counter
    config,                 \* what the object is configured with at DoInitialize
    initialized,            \* CheckConfig and InitializeParams accepted the configuration
    now,                    \* Simulator::Now() (ms)
    rtrsEvent,              \* m_rtrsEvent: the instants of the pending update event
    aborted,                \* "" or the message of the fatal error that ended the run
    \* history variables
    offered,                \* number of packets offered to DoEnqueue
    handed,                 \* number of packets DoDequeue returned
    lastC, lastL,           \* id of the last packet DoDequeue returned, by class
    servedC, servedL,       \* bytes DoDequeue returned, by class
    forcedDrops,            \* number of packets dropped with FORCED_DROP
    l4sDrops, classicDrops  \* number dropped with UNFORCED_L4S_DROP / _CLASSIC_DROP

vars == << qC, qL, sC, sL, baseProb, pC, pCL, pL, prevQ, classicCount, l4sCount,
           llDeficit, classicDeficit, drrQueues,
           cLatencySample, lLatencySample, cBytesSample,
           disableLaqm, enableWifiClassicLatencyEstimator, aggBufferLimit,
           source, startTime, disposed, recurRun, config, initialized,
           now, rtrsEvent, aborted,
           offered, handed, lastC, lastL, servedC, servedL,
           forcedDrops, l4sDrops, classicDrops >>

\* ---------------------------------------------------------------- helpers
Min(a, b) == IF a <= b THEN a ELSE b
Max(a, b) == IF a >= b THEN a ELSE b

RECURSIVE GetNBytesOf(_)
\* Queue<Item>::GetNBytes of an internal queue
GetNBytesOf(q) == IF q = << >> THEN 0 ELSE Head(q).size + GetNBytesOf(Tail(q))

\* Queue<Item>::Peek
Peek(q) == IF q = << >> THEN NoItem ELSE Head(q)

Ids(q) == { q[i].id : i \in 1..Len(q) }

\* The part of the object the handlers thread through their statements, with
\* what one handler run drops (dropLog: the items, with the reason) and
\* tries to mark (markLog: the items as they were, with the call site), and
\* the message of the fatal error that ended it, if any.
Cur ==
    [ qC |-> qC, qL |-> qL, sC |-> sC, sL |-> sL,
      classicCount |-> classicCount, l4sCount |-> l4sCount, pL |-> pL,
      llDeficit |-> llDeficit, classicDeficit |-> classicDeficit,
      drrQueues |-> drrQueues,
      dropLog |-> {}, markLog |-> {}, abort |-> "" ]

\* QueueDisc::GetNBytes, QueueDisc::GetNPackets: what the internal queues hold
GetNBytes(d) == GetNBytesOf(d.qC) + GetNBytesOf(d.qL)
GetNPackets(d) == Len(d.qC) + Len(d.qL)

\* DualPi2QueueDisc::GetQueueSize that forgets the L4S internal queue
GetQueueSizeClassicOnly(d) == GetNBytesOf(d.qC)

\* DualPi2QueueDisc::GetQueueSize: the bytes of both internal queues
GetQueueSize(d) == GetNBytesOf(d.qC) + GetNBytesOf(d.qL)

PCmax == Min(One \div (K * K), One)
PLmax == One
ThLen == 1

\* ------------------------------------------------------------- primitives
\* IsL4s that tests for ECT(1) alone
IsL4sEct1Only(item) == item.ip /\ item.ecn = ECT1

\* IsL4s that tests for anything but ECT(0)
IsL4sNotEct0(item) == item.ip /\ item.ecn # ECT0

\* DualPi2QueueDisc::IsL4s: ECT(1) or CE in a readable DS field
IsL4s(item) == item.ip /\ (item.ecn = ECT1 \/ item.ecn = CE)

\* QueueDiscItem::Mark: sets CE and succeeds, unless the packet is not
\* ECN-capable (no IP header, or Not-ECT), when it fails and changes nothing
Mark(item) ==
    IF item.ip /\ item.ecn # NotECT
    THEN [ok |-> TRUE, item |-> [item EXCEPT !.ecn = CE]]
    ELSE [ok |-> FALSE, item |-> item]

\* Laqm whose ramp starts at a delay of zero
LaqmUsNoThreshold(qDelay) ==
    IF disableLaqm THEN 0
    ELSE IF qDelay >= MinTh + Range THEN One
    ELSE IF qDelay > 0
         THEN qDelay * (One \div Range)
    ELSE 0

\* DualPi2QueueDisc::Laqm; qDelay in us, the result in 1/One
LaqmUs(qDelay) ==
    IF disableLaqm THEN 0
    ELSE IF qDelay >= MinTh + Range THEN One
    ELSE IF qDelay > MinTh
         THEN (qDelay - MinTh) * (One \div Range)
    ELSE 0

\* DualPi2QueueDisc::Laqm called with a delay in ms
Laqm(qDelay) == LaqmUs(qDelay * UsPerMs)

\* Recur that reports the carry and keeps it in the counter
RecurNoSubtract(count, likelihood) ==
    IF count + likelihood > One
    THEN [count |-> count + likelihood, hit |-> TRUE]
    ELSE [count |-> count + likelihood, hit |-> FALSE]

\* DualPi2QueueDisc::Recur: count is passed by reference
Recur(count, likelihood) ==
    IF count + likelihood > One
    THEN [count |-> count + likelihood - One, hit |-> TRUE]
    ELSE [count |-> count + likelihood, hit |-> FALSE]

\* DualPi2QueueDisc::CanSchedule: first -> CLASSIC, second -> L4S
CanSchedule(d, byteLimit) ==
    IF GetNPackets(d) = 0 THEN [first |-> FALSE, second |-> FALSE]
    ELSE LET l4sHolWifiSize ==
                 IF d.qL # << >> THEN Head(d.qL).size + WifiOverhead ELSE 0
             classicHolWifiSize ==
                 IF d.qC # << >> THEN Head(d.qC).size + WifiOverhead ELSE 0
         IN  [ first  |-> classicHolWifiSize # 0 /\ classicHolWifiSize <= byteLimit,
               second |-> l4sHolWifiSize # 0 /\ l4sHolWifiSize <= byteLimit ]

\* The Scheduler loop whose new round credits both classes with one quantum
RECURSIVE SchedulerLoopUnweighted(_, _, _, _)
SchedulerLoopUnweighted(d, eligible, l4sHolSize, classicHolSize) ==
    LET d1 == IF d.drrQueues = {}
              THEN [d EXCEPT !.drrQueues = {L4S, CLASSIC},
                             !.llDeficit = @ + DrrQuantum,
                             !.classicDeficit = @ + DrrQuantum]
              ELSE d
    IN  IF l4sHolSize # 0 /\ eligible.second /\ l4sHolSize <= d1.llDeficit
        THEN [d |-> [d1 EXCEPT !.llDeficit = @ - l4sHolSize], sel |-> L4S]
        ELSE
        LET d2 == IF l4sHolSize # 0 /\ eligible.second
                  THEN [d1 EXCEPT !.drrQueues = @ \ {L4S}]
                  ELSE d1
            d3 == IF l4sHolSize = 0
                  THEN [d2 EXCEPT !.llDeficit = 0, !.drrQueues = @ \ {L4S}]
                  ELSE d2
        IN  IF classicHolSize # 0 /\ eligible.first
               /\ classicHolSize <= d3.classicDeficit
            THEN [d |-> [d3 EXCEPT !.classicDeficit = @ - classicHolSize],
                  sel |-> CLASSIC]
            ELSE
            LET d4 == IF classicHolSize # 0 /\ eligible.first
                      THEN [d3 EXCEPT !.drrQueues = @ \ {CLASSIC}]
                      ELSE d3
                d5 == IF classicHolSize = 0
                      THEN [d4 EXCEPT !.classicDeficit = 0,
                                      !.drrQueues = @ \ {CLASSIC}]
                      ELSE d4
            IN  IF d5 = d
                THEN [d |-> [d5 EXCEPT !.abort = FATAL], sel |-> NONE]
                ELSE SchedulerLoopUnweighted(d5, eligible, l4sHolSize,
                                             classicHolSize)

\* The Scheduler loop that leaves a class in the round when its head-of-line
\* packet exceeds its deficit
RECURSIVE SchedulerLoopKeepsRound(_, _, _, _)
SchedulerLoopKeepsRound(d, eligible, l4sHolSize, classicHolSize) ==
    LET d1 == IF d.drrQueues = {}
              THEN [d EXCEPT !.drrQueues = {L4S, CLASSIC},
                             !.llDeficit = @ + DrrQuantum * SchedulingWeight,
                             !.classicDeficit = @ + DrrQuantum]
              ELSE d
    IN  IF l4sHolSize # 0 /\ eligible.second /\ l4sHolSize <= d1.llDeficit
        THEN [d |-> [d1 EXCEPT !.llDeficit = @ - l4sHolSize], sel |-> L4S]
        ELSE
        LET d3 == IF l4sHolSize = 0
                  THEN [d1 EXCEPT !.llDeficit = 0, !.drrQueues = @ \ {L4S}]
                  ELSE d1
        IN  IF classicHolSize # 0 /\ eligible.first
               /\ classicHolSize <= d3.classicDeficit
            THEN [d |-> [d3 EXCEPT !.classicDeficit = @ - classicHolSize],
                  sel |-> CLASSIC]
            ELSE
            LET d5 == IF classicHolSize = 0
                      THEN [d3 EXCEPT !.classicDeficit = 0,
                                      !.drrQueues = @ \ {CLASSIC}]
                      ELSE d3
            IN  IF d5 = d
                THEN [d |-> [d5 EXCEPT !.abort = FATAL], sel |-> NONE]
                ELSE SchedulerLoopKeepsRound(d5, eligible, l4sHolSize,
                                             classicHolSize)

\* The Scheduler loop that ends the round of a class whose queue is empty
\* and leaves its deficit
RECURSIVE SchedulerLoopKeepsIdleDeficit(_, _, _, _)
SchedulerLoopKeepsIdleDeficit(d, eligible, l4sHolSize, classicHolSize) ==
    LET d1 == IF d.drrQueues = {}
              THEN [d EXCEPT !.drrQueues = {L4S, CLASSIC},
                             !.llDeficit = @ + DrrQuantum * SchedulingWeight,
                             !.classicDeficit = @ + DrrQuantum]
              ELSE d
    IN  IF l4sHolSize # 0 /\ eligible.second /\ l4sHolSize <= d1.llDeficit
        THEN [d |-> [d1 EXCEPT !.llDeficit = @ - l4sHolSize], sel |-> L4S]
        ELSE
        LET d2 == IF l4sHolSize # 0 /\ eligible.second
                  THEN [d1 EXCEPT !.drrQueues = @ \ {L4S}]
                  ELSE d1
            d3 == IF l4sHolSize = 0
                  THEN [d2 EXCEPT !.drrQueues = @ \ {L4S}]
                  ELSE d2
        IN  IF classicHolSize # 0 /\ eligible.first
               /\ classicHolSize <= d3.classicDeficit
            THEN [d |-> [d3 EXCEPT !.classicDeficit = @ - classicHolSize],
                  sel |-> CLASSIC]
            ELSE
            LET d4 == IF classicHolSize # 0 /\ eligible.first
                      THEN [d3 EXCEPT !.drrQueues = @ \ {CLASSIC}]
                      ELSE d3
                d5 == IF classicHolSize = 0
                      THEN [d4 EXCEPT !.drrQueues = @ \ {CLASSIC}]
                      ELSE d4
            IN  IF d5 = d
                THEN [d |-> [d5 EXCEPT !.abort = FATAL], sel |-> NONE]
                ELSE SchedulerLoopKeepsIdleDeficit(d5, eligible, l4sHolSize,
                                                   classicHolSize)

\* One iteration of the for loop of DualPi2QueueDisc::Scheduler, and the
\* iterations after it.  An iteration that selects nothing and changes
\* nothing repeats until the loop counters wrap and ends in NS_FATAL_ERROR.
RECURSIVE SchedulerLoop(_, _, _, _)
SchedulerLoop(d, eligible, l4sHolSize, classicHolSize) ==
    LET d1 == IF d.drrQueues = {}
              THEN [d EXCEPT !.drrQueues = {L4S, CLASSIC},
                             !.llDeficit = @ + DrrQuantum * SchedulingWeight,
                             !.classicDeficit = @ + DrrQuantum]
              ELSE d
    IN  IF l4sHolSize # 0 /\ eligible.second /\ l4sHolSize <= d1.llDeficit
        THEN [d |-> [d1 EXCEPT !.llDeficit = @ - l4sHolSize], sel |-> L4S]
        ELSE
        LET d2 == IF l4sHolSize # 0 /\ eligible.second
                  THEN [d1 EXCEPT !.drrQueues = @ \ {L4S}]
                  ELSE d1
            d3 == IF l4sHolSize = 0
                  THEN [d2 EXCEPT !.llDeficit = 0, !.drrQueues = @ \ {L4S}]
                  ELSE d2
        IN  IF classicHolSize # 0 /\ eligible.first
               /\ classicHolSize <= d3.classicDeficit
            THEN [d |-> [d3 EXCEPT !.classicDeficit = @ - classicHolSize],
                  sel |-> CLASSIC]
            ELSE
            LET d4 == IF classicHolSize # 0 /\ eligible.first
                      THEN [d3 EXCEPT !.drrQueues = @ \ {CLASSIC}]
                      ELSE d3
                d5 == IF classicHolSize = 0
                      THEN [d4 EXCEPT !.classicDeficit = 0,
                                      !.drrQueues = @ \ {CLASSIC}]
                      ELSE d4
            IN  IF d5 = d
                THEN [d |-> [d5 EXCEPT !.abort = FATAL], sel |-> NONE]
                ELSE SchedulerLoop(d5, eligible, l4sHolSize, classicHolSize)

\* Scheduler that takes both classes for eligible
SchedulerIgnoresEligible(d, eligible) ==
    LET l4sHolSize == Peek(d.qL).size
        classicHolSize == Peek(d.qC).size
    IN  IF GetNPackets(d) = 0 THEN [d |-> d, sel |-> NONE]
        ELSE SchedulerLoop(d, [first |-> TRUE, second |-> TRUE],
                           l4sHolSize, classicHolSize)

\* DualPi2QueueDisc::Scheduler
Scheduler(d, eligible) ==
    LET l4sHolSize == Peek(d.qL).size
        classicHolSize == Peek(d.qC).size
    IN  IF GetNPackets(d) = 0 THEN [d |-> d, sel |-> NONE]
        ELSE SchedulerLoop(d, eligible, l4sHolSize, classicHolSize)

\* QueueDisc::DropAfterDequeue, and what the history records of it
DropAfterDequeue(d, item, reason) ==
    [d EXCEPT !.dropLog = @ \cup {[item |-> item, reason |-> reason]}]

\* The loop of DequeueFromL4sQueue with the Classic reaction in the branch
\* below saturation: the packet Recur selects is dropped, not marked
RECURSIVE L4sLoopDropOnHit(_, _, _)
L4sLoopDropOnHit(d, qdItem, marked) ==
    IF qdItem = NoItem THEN [d |-> d, item |-> NoItem, marked |-> marked]
    ELSE IF pCL < PLmax
    THEN LET pPrimeL == IF Len(d.qL) > ThLen THEN Laqm(now - qdItem.ts) ELSE 0
             pLv == Min(Max(pPrimeL, pCL), One)
             r == Recur(d.l4sCount, pLv)
             d1 == [d EXCEPT !.pL = pLv, !.l4sCount = r.count]
         IN  IF ~r.hit THEN [d |-> d1, item |-> qdItem, marked |-> marked]
             ELSE LET d2 == DropAfterDequeue(d1, qdItem, "UNFORCED_L4S_DROP")
                  IN  L4sLoopDropOnHit(
                          [d2 EXCEPT !.qL = IF @ = << >> THEN @ ELSE Tail(@)],
                          Peek(d2.qL), marked)
    ELSE LET r1 == Recur(d.l4sCount, pC)
             d1 == [d EXCEPT !.l4sCount = r1.count]
         IN  IF r1.hit
             THEN LET d2 == DropAfterDequeue(d1, qdItem, "UNFORCED_L4S_DROP")
                  IN  L4sLoopDropOnHit(
                          [d2 EXCEPT !.qL = IF @ = << >> THEN @ ELSE Tail(@)],
                          Peek(d2.qL), marked)
             ELSE LET r2 == Recur(d1.l4sCount, pCL)
                      d3 == [d1 EXCEPT !.l4sCount = r2.count]
                      m == Mark(qdItem)
                  IN  IF ~r2.hit THEN [d |-> d3, item |-> qdItem, marked |-> marked]
                      ELSE [d |-> d3, item |-> m.item, marked |-> m.ok]

\* The loop of DequeueFromL4sQueue with LAQM applied from m_thLen packets on
\* (>= for >);
\* qdItem has left d.qL
RECURSIVE L4sLoopThLenGe(_, _, _)
L4sLoopThLenGe(d, qdItem, marked) ==
    IF qdItem = NoItem THEN [d |-> d, item |-> NoItem, marked |-> marked]
    ELSE IF pCL < PLmax
    THEN LET pPrimeL == IF Len(d.qL) >= ThLen THEN Laqm(now - qdItem.ts) ELSE 0
             pLv == Min(Max(pPrimeL, pCL), One)
             r == Recur(d.l4sCount, pLv)
             d1 == [d EXCEPT !.pL = pLv, !.l4sCount = r.count]
             m == Mark(qdItem)
             d2 == [d1 EXCEPT !.markLog = @ \cup
                      {[item |-> qdItem, site |-> "DequeueFromL4sQueue"]}]
         IN  IF ~r.hit THEN [d |-> d1, item |-> qdItem, marked |-> marked]
             ELSE IF ~m.ok
             THEN [d |-> [d2 EXCEPT !.abort = "Make sure we can mark in L4S queue"],
                   item |-> qdItem, marked |-> FALSE]
             ELSE [d |-> d2, item |-> m.item, marked |-> TRUE]
    ELSE LET r1 == Recur(d.l4sCount, pC)
             d1 == [d EXCEPT !.l4sCount = r1.count]
         IN  IF r1.hit
             THEN LET d2 == DropAfterDequeue(d1, qdItem, "UNFORCED_L4S_DROP")
                  IN  L4sLoopThLenGe([d2 EXCEPT !.qL = IF @ = << >> THEN @ ELSE Tail(@)],
                              Peek(d2.qL), marked)
             ELSE LET r2 == Recur(d1.l4sCount, pCL)
                      d3 == [d1 EXCEPT !.l4sCount = r2.count]
                      m == Mark(qdItem)
                      d4 == [d3 EXCEPT !.markLog = @ \cup
                               {[item |-> qdItem, site |-> "DequeueFromL4sQueue"]}]
                  IN  IF ~r2.hit THEN [d |-> d3, item |-> qdItem, marked |-> marked]
                      ELSE IF ~m.ok
                      THEN [d |-> [d4 EXCEPT !.abort =
                                     "Make sure we can mark in L4S queue"],
                            item |-> qdItem, marked |-> FALSE]
                      ELSE [d |-> d4, item |-> m.item, marked |-> TRUE]

\* The loop of DequeueFromL4sQueue that, in overload, marks first and then
\* decides on the drop
RECURSIVE L4sLoopMarkThenDrop(_, _, _)
L4sLoopMarkThenDrop(d, qdItem, marked) ==
    IF qdItem = NoItem THEN [d |-> d, item |-> NoItem, marked |-> marked]
    ELSE IF pCL < PLmax
    THEN LET pPrimeL == IF Len(d.qL) > ThLen THEN Laqm(now - qdItem.ts) ELSE 0
             pLv == Min(Max(pPrimeL, pCL), One)
             r == Recur(d.l4sCount, pLv)
             d1 == [d EXCEPT !.pL = pLv, !.l4sCount = r.count]
             m == Mark(qdItem)
             d2 == [d1 EXCEPT !.markLog = @ \cup
                      {[item |-> qdItem, site |-> "DequeueFromL4sQueue"]}]
         IN  IF ~r.hit THEN [d |-> d1, item |-> qdItem, marked |-> marked]
             ELSE IF ~m.ok
             THEN [d |-> [d2 EXCEPT !.abort = "Make sure we can mark in L4S queue"],
                   item |-> qdItem, marked |-> FALSE]
             ELSE [d |-> d2, item |-> m.item, marked |-> TRUE]
    ELSE LET r2 == Recur(d.l4sCount, pCL)
             m == Mark(qdItem)
             d1 == IF r2.hit
                   THEN [d EXCEPT !.l4sCount = r2.count,
                                  !.markLog = @ \cup
                                     {[item |-> qdItem,
                                       site |-> "DequeueFromL4sQueue"]}]
                   ELSE [d EXCEPT !.l4sCount = r2.count]
             r1 == Recur(d1.l4sCount, pC)
             d3 == [d1 EXCEPT !.l4sCount = r1.count]
         IN  IF r1.hit
             THEN LET d4 == DropAfterDequeue(d3, qdItem, "UNFORCED_L4S_DROP")
                  IN  L4sLoopMarkThenDrop(
                          [d4 EXCEPT !.qL = IF @ = << >> THEN @ ELSE Tail(@)],
                          Peek(d4.qL), marked)
             ELSE IF r2.hit /\ m.ok
             THEN [d |-> d3, item |-> m.item, marked |-> TRUE]
             ELSE [d |-> d3, item |-> qdItem, marked |-> marked]

\* The while (qdItem) loop of DualPi2QueueDisc::DequeueFromL4sQueue;
\* qdItem has left d.qL
RECURSIVE L4sLoop(_, _, _)
L4sLoop(d, qdItem, marked) ==
    IF qdItem = NoItem THEN [d |-> d, item |-> NoItem, marked |-> marked]
    ELSE IF pCL < PLmax
    THEN LET pPrimeL == IF Len(d.qL) > ThLen THEN Laqm(now - qdItem.ts) ELSE 0
             pLv == Min(Max(pPrimeL, pCL), One)
             r == Recur(d.l4sCount, pLv)
             d1 == [d EXCEPT !.pL = pLv, !.l4sCount = r.count]
             m == Mark(qdItem)
             d2 == [d1 EXCEPT !.markLog = @ \cup
                      {[item |-> qdItem, site |-> "DequeueFromL4sQueue"]}]
         IN  IF ~r.hit THEN [d |-> d1, item |-> qdItem, marked |-> marked]
             ELSE IF ~m.ok
             THEN [d |-> [d2 EXCEPT !.abort = "Make sure we can mark in L4S queue"],
                   item |-> qdItem, marked |-> FALSE]
             ELSE [d |-> d2, item |-> m.item, marked |-> TRUE]
    ELSE LET r1 == Recur(d.l4sCount, pC)
             d1 == [d EXCEPT !.l4sCount = r1.count]
         IN  IF r1.hit
             THEN LET d2 == DropAfterDequeue(d1, qdItem, "UNFORCED_L4S_DROP")
                  IN  L4sLoop([d2 EXCEPT !.qL = IF @ = << >> THEN @ ELSE Tail(@)],
                              Peek(d2.qL), marked)
             ELSE LET r2 == Recur(d1.l4sCount, pCL)
                      d3 == [d1 EXCEPT !.l4sCount = r2.count]
                      m == Mark(qdItem)
                      d4 == [d3 EXCEPT !.markLog = @ \cup
                               {[item |-> qdItem, site |-> "DequeueFromL4sQueue"]}]
                  IN  IF ~r2.hit THEN [d |-> d3, item |-> qdItem, marked |-> marked]
                      ELSE IF ~m.ok
                      THEN [d |-> [d4 EXCEPT !.abort =
                                     "Make sure we can mark in L4S queue"],
                            item |-> qdItem, marked |-> FALSE]
                      ELSE [d |-> d4, item |-> m.item, marked |-> TRUE]

\* DualPi2QueueDisc::DequeueFromL4sQueue(bool& marked)
DequeueFromL4sQueue(d, marked) ==
    L4sLoop([d EXCEPT !.qL = IF @ = << >> THEN @ ELSE Tail(@)], Peek(d.qL), marked)

\* The loop of DequeueFromClassicQueue that signals congestion to an
\* ECN-capable Classic packet by a CE mark and drops the others
RECURSIVE ClassicLoopMarksEcnCapable(_, _, _)
ClassicLoopMarksEcnCapable(d, qdItem, dropped) ==
    IF qdItem = NoItem THEN [d |-> d, item |-> NoItem, dropped |-> dropped]
    ELSE LET r == Recur(d.classicCount, pC)
             d1 == [d EXCEPT !.classicCount = r.count]
             m == Mark(qdItem)
         IN  IF (r.hit \/ pC >= PCmax) /\ m.ok
             THEN [d |-> d1, item |-> m.item, dropped |-> dropped]
             ELSE IF r.hit \/ pC >= PCmax
             THEN LET d2 == DropAfterDequeue(d1, qdItem, "UNFORCED_CLASSIC_DROP")
                  IN  ClassicLoopMarksEcnCapable(
                          [d2 EXCEPT !.qC = IF @ = << >> THEN @ ELSE Tail(@)],
                          Peek(d2.qC), TRUE)
             ELSE [d |-> d1, item |-> qdItem, dropped |-> dropped]

\* The loop of DequeueFromClassicQueue that drops on Recur alone, without the
\* test of m_pC against m_pCmax
RECURSIVE ClassicLoopRecurOnly(_, _, _)
ClassicLoopRecurOnly(d, qdItem, dropped) ==
    IF qdItem = NoItem THEN [d |-> d, item |-> NoItem, dropped |-> dropped]
    ELSE LET r == Recur(d.classicCount, pC)
             d1 == [d EXCEPT !.classicCount = r.count]
         IN  IF r.hit
             THEN LET d2 == DropAfterDequeue(d1, qdItem, "UNFORCED_CLASSIC_DROP")
                  IN  ClassicLoopRecurOnly(
                          [d2 EXCEPT !.qC = IF @ = << >> THEN @ ELSE Tail(@)],
                          Peek(d2.qC), TRUE)
             ELSE [d |-> d1, item |-> qdItem, dropped |-> dropped]

\* The while (qdItem) loop of DualPi2QueueDisc::DequeueFromClassicQueue
RECURSIVE ClassicLoop(_, _, _)
ClassicLoop(d, qdItem, dropped) ==
    IF qdItem = NoItem THEN [d |-> d, item |-> NoItem, dropped |-> dropped]
    ELSE LET r == Recur(d.classicCount, pC)
             d1 == [d EXCEPT !.classicCount = r.count]
         IN  IF r.hit \/ pC >= PCmax
             THEN LET d2 == DropAfterDequeue(d1, qdItem, "UNFORCED_CLASSIC_DROP")
                  IN  ClassicLoop([d2 EXCEPT !.qC = IF @ = << >> THEN @ ELSE Tail(@)],
                                  Peek(d2.qC), TRUE)
             ELSE [d |-> d1, item |-> qdItem, dropped |-> dropped]

\* DualPi2QueueDisc::DequeueFromClassicQueue(bool& dropped)
DequeueFromClassicQueue(d, dropped) ==
    LET qdItem == Peek(d.qC)
        d1 == [d EXCEPT !.qC = IF @ = << >> THEN @ ELSE Tail(@)]
    IN  IF GetNBytesOf(d1.qC) < 2 * Mtu
        THEN [d |-> d1, item |-> qdItem, dropped |-> dropped]
        ELSE ClassicLoop(d1, qdItem, dropped)

\* ------------------------------------------------------------ the handlers
Drops(d, reason) == Cardinality({ x \in d.dropLog : x.reason = reason })

\* The members a handler leaves as it found them
Commit(d) ==
    /\ qC' = d.qC /\ qL' = d.qL /\ sC' = d.sC /\ sL' = d.sL
    /\ classicCount' = d.classicCount /\ l4sCount' = d.l4sCount /\ pL' = d.pL
    /\ llDeficit' = d.llDeficit /\ classicDeficit' = d.classicDeficit
    /\ drrQueues' = d.drrQueues
    /\ l4sDrops' = l4sDrops + Drops(d, "UNFORCED_L4S_DROP")
    /\ classicDrops' = classicDrops + Drops(d, "UNFORCED_CLASSIC_DROP")

\* NS_ASSERT_MSG / NS_ABORT_MSG / NS_FATAL_ERROR: the program ends
Abort(msg) ==
    /\ aborted' = msg
    /\ UNCHANGED << qC, qL, sC, sL, baseProb, pC, pCL, pL, prevQ, classicCount,
                    l4sCount, llDeficit, classicDeficit, drrQueues,
                    cLatencySample, lLatencySample, cBytesSample,
                    disableLaqm, enableWifiClassicLatencyEstimator, aggBufferLimit,
                    source, startTime, disposed,
                    recurRun, config, initialized,
                    now, rtrsEvent,
                    offered, handed, lastC, lastL, servedC, servedL,
                    forcedDrops, l4sDrops,
                    classicDrops >>

\* The item the traffic source offers: QueueDisc::Enqueue stamps it
NewItem(kind) ==
    [id |-> offered + 1, size |-> kind.size, ip |-> kind.ip, ecn |-> kind.ecn,
     ecn0 |-> kind.ecn, ts |-> now]

\* DoEnqueue that also refuses the packet that fills the queue exactly
EnqueueGe(d, item) ==
    LET nQueued == GetQueueSize(d)
    IN  IF nQueued + item.size >= QueueLimit
        THEN [d |-> d, ok |-> FALSE]
        ELSE IF IsL4s(item)
             THEN [d |-> [d EXCEPT !.qL = Append(@, item)], ok |-> TRUE]
             ELSE [d |-> [d EXCEPT !.qC = Append(@, item)], ok |-> TRUE]

\* DoEnqueue that reports the drop and still goes on to enqueue the packet
EnqueueNoReturn(d, item) ==
    LET nQueued == GetQueueSize(d)
        full == nQueued + item.size > QueueLimit
    IN  IF IsL4s(item)
        THEN [d |-> [d EXCEPT !.qL = Append(@, item)], ok |-> ~full]
        ELSE [d |-> [d EXCEPT !.qC = Append(@, item)], ok |-> ~full]

\* DualPi2QueueDisc::DoEnqueue: [d, ok]
Enqueue(d, item) ==
    LET nQueued == GetQueueSize(d)
    IN  IF nQueued + item.size > QueueLimit
        THEN [d |-> d, ok |-> FALSE]
        ELSE IF IsL4s(item)
             THEN [d |-> [d EXCEPT !.qL = Append(@, item)], ok |-> TRUE]
             ELSE [d |-> [d EXCEPT !.qC = Append(@, item)], ok |-> TRUE]

DoEnqueue(kind) ==
    /\ aborted = ""
    /\ offered < MaxPkts
    /\ kind \in source
    /\ now < Tupdate
    /\ LET item == NewItem(kind)
           r == Enqueue(Cur, item)
       IN  /\ Commit(r.d)
           /\ offered' = offered + 1
           /\ forcedDrops' = IF r.ok THEN forcedDrops ELSE forcedDrops + 1
    /\ UNCHANGED << baseProb, pC, pCL, prevQ,
                    cLatencySample, lLatencySample, cBytesSample,
                    disableLaqm, enableWifiClassicLatencyEstimator, aggBufferLimit,
                    source, startTime, disposed,
                    recurRun, config, initialized,
                    now, rtrsEvent, aborted, handed, lastC, lastL,
                    servedC, servedL >>

\* AddToL4sStagingQueue that pushes at the front
AddToL4sStagingQueueFront(d, qdItem) == [d EXCEPT !.sL = << qdItem >> \o @]

\* AddToL4sStagingQueue, AddToClassicStagingQueue
AddToL4sStagingQueue(d, qdItem) == [d EXCEPT !.sL = Append(@, qdItem)]
AddToClassicStagingQueue(d, qdItem) == [d EXCEPT !.sC = Append(@, qdItem)]

\* DequeueFromL4sStagingQueue that returns the front and leaves it queued
DequeueFromL4sStagingQueueNoPop(d) ==
    IF d.sL # << >> THEN [d |-> d, item |-> Head(d.sL)]
    ELSE [d |-> d, item |-> NoItem]

\* DequeueFromL4sStagingQueue, DequeueFromClassicStagingQueue: [d, item]
DequeueFromL4sStagingQueue(d) ==
    IF d.sL # << >> THEN [d |-> [d EXCEPT !.sL = Tail(@)], item |-> Head(d.sL)]
    ELSE [d |-> d, item |-> NoItem]
DequeueFromClassicStagingQueue(d) ==
    IF d.sC # << >> THEN [d |-> [d EXCEPT !.sC = Tail(@)], item |-> Head(d.sC)]
    ELSE [d |-> d, item |-> NoItem]

\* The loop of DoDequeue that returns nullptr when the AQM dropped the packet
DequeueLoopNoRetry(d) ==
    LET FromL4s(r) ==
            IF r.d.abort # "" \/ r.item # NoItem
            THEN [d |-> r.d, item |-> r.item, from |-> L4S]
            ELSE [d |-> r.d, item |-> NoItem, from |-> NONE]
        FromClassic(r) ==
            IF r.item # NoItem
            THEN [d |-> r.d, item |-> r.item, from |-> CLASSIC]
            ELSE [d |-> r.d, item |-> NoItem, from |-> NONE]
        Selected(s) ==
            IF s.d.abort # "" THEN [d |-> s.d, item |-> NoItem, from |-> NONE]
            ELSE IF s.sel = L4S THEN FromL4s(DequeueFromL4sQueue(s.d, FALSE))
            ELSE IF s.sel = CLASSIC
            THEN FromClassic(DequeueFromClassicQueue(s.d, FALSE))
            ELSE [d |-> s.d, item |-> NoItem, from |-> NONE]
    IN  IF GetQueueSize(d) > 0
        THEN Selected(Scheduler(d, [first |-> TRUE, second |-> TRUE]))
        ELSE [d |-> d, item |-> NoItem, from |-> NONE]

\* The while (GetQueueSize() > 0) loop of DualPi2QueueDisc::DoDequeue
RECURSIVE DequeueLoop(_)
DequeueLoop(d) ==
    LET FromL4s(r) ==
            IF r.d.abort # "" \/ r.item # NoItem
            THEN [d |-> r.d, item |-> r.item, from |-> L4S]
            ELSE DequeueLoop(r.d)
        FromClassic(r) ==
            IF r.item # NoItem
            THEN [d |-> r.d, item |-> r.item, from |-> CLASSIC]
            ELSE DequeueLoop(r.d)
        Selected(s) ==
            IF s.d.abort # "" THEN [d |-> s.d, item |-> NoItem, from |-> NONE]
            ELSE IF s.sel = L4S THEN FromL4s(DequeueFromL4sQueue(s.d, FALSE))
            ELSE IF s.sel = CLASSIC
            THEN FromClassic(DequeueFromClassicQueue(s.d, FALSE))
            ELSE [d |-> s.d, item |-> NoItem, from |-> NONE]
    IN  IF GetQueueSize(d) > 0
        THEN Selected(Scheduler(d, [first |-> TRUE, second |-> TRUE]))
        ELSE [d |-> d, item |-> NoItem, from |-> NONE]

\* DoDequeue that serves the Classic staging queue before the L4S one
DequeueClassicStagedFirst(d) ==
    LET l == DequeueFromL4sStagingQueue(d)
        c == DequeueFromClassicStagingQueue(d)
    IN  IF c.item # NoItem THEN [d |-> c.d, item |-> c.item, from |-> CLASSIC]
        ELSE IF l.item # NoItem THEN [d |-> l.d, item |-> l.item, from |-> L4S]
        ELSE DequeueLoop(d)

\* DualPi2QueueDisc::DoDequeue: [d, item, from]
Dequeue(d) ==
    LET l == DequeueFromL4sStagingQueue(d)
        c == DequeueFromClassicStagingQueue(l.d)
    IN  IF l.item # NoItem THEN [d |-> l.d, item |-> l.item, from |-> L4S]
        ELSE IF c.item # NoItem THEN [d |-> c.d, item |-> c.item, from |-> CLASSIC]
        ELSE DequeueLoop(d)

\* DoDequeue that publishes the L4S probability of the dequeue as m_pCL
DoDequeuePublishesCoupled ==
    /\ aborted = ""
    /\ LET Return(r) ==
               IF r.d.abort # "" THEN Abort(r.d.abort)
               ELSE /\ Commit(r.d)
                    /\ handed' = IF r.item # NoItem THEN handed + 1 ELSE handed
                    /\ lastL' = IF r.item # NoItem /\ r.from = L4S
                                THEN r.item.id ELSE lastL
                    /\ lastC' = IF r.item # NoItem /\ r.from = CLASSIC
                                THEN r.item.id ELSE lastC
                    /\ servedL' = IF r.from = L4S
                                  THEN servedL + r.item.size ELSE servedL
                    /\ servedC' = IF r.from = CLASSIC
                                  THEN servedC + r.item.size ELSE servedC
                    /\ pCL' = r.d.pL
                    /\ UNCHANGED << baseProb, pC, prevQ,
                                    cLatencySample, lLatencySample, cBytesSample,
                                    disableLaqm, enableWifiClassicLatencyEstimator,
                                    aggBufferLimit, source, startTime, disposed,
                                    recurRun, config, initialized,
                                    now, rtrsEvent, aborted,
                                    offered, forcedDrops >>
       IN  Return(Dequeue(Cur))

\* DualPi2QueueDisc::DoDequeue, called by the device
DoDequeue ==
    /\ aborted = ""
    /\ LET Return(r) ==
               IF r.d.abort # "" THEN Abort(r.d.abort)
               ELSE /\ Commit(r.d)
                    /\ handed' = IF r.item # NoItem THEN handed + 1 ELSE handed
                    /\ lastL' = IF r.item # NoItem /\ r.from = L4S
                                THEN r.item.id ELSE lastL
                    /\ lastC' = IF r.item # NoItem /\ r.from = CLASSIC
                                THEN r.item.id ELSE lastC
                    /\ servedL' = IF r.from = L4S
                                  THEN servedL + r.item.size ELSE servedL
                    /\ servedC' = IF r.from = CLASSIC
                                  THEN servedC + r.item.size ELSE servedC
                    /\ UNCHANGED << baseProb, pC, pCL, prevQ,
                                    cLatencySample, lLatencySample, cBytesSample,
                                    disableLaqm, enableWifiClassicLatencyEstimator,
                                    aggBufferLimit, source, startTime, disposed,
                                    recurRun, config, initialized,
                                    now, rtrsEvent, aborted,
                                    offered, forcedDrops >>
       IN  Return(Dequeue(Cur))

\* DualPi2QueueDisc::DoPeek: the head of the first internal queue that holds
\* a packet, CLASSIC before L4S, or nullptr; it changes nothing
DoPeek(d) ==
    IF d.qC # << >> THEN Head(d.qC)
    ELSE IF d.qL # << >> THEN Head(d.qL)
    ELSE NoItem

MaxIterations == 1000

\* The for loop of PendingDequeueCallback: [d, markedCount]
RECURSIVE PendingLoop(_, _, _, _)
PendingLoop(d, pendingBytesLeft, markedCount, i) ==
    IF i >= MaxIterations
    THEN [d |-> [d EXCEPT !.abort = "Error: infinite loop"],
          markedCount |-> markedCount]
    ELSE
    LET FromL4s(r) ==
            IF r.d.abort # "" THEN [d |-> r.d, markedCount |-> markedCount]
            ELSE IF r.item = NoItem
            THEN PendingLoop(r.d, pendingBytesLeft, markedCount, i + 1)
            ELSE IF ~(r.item.size + WifiOverhead <= pendingBytesLeft)
            THEN [d |-> [r.d EXCEPT !.abort = "Error, insufficient pending bytes"],
                  markedCount |-> markedCount]
            ELSE PendingLoop(AddToL4sStagingQueue(r.d, r.item),
                             pendingBytesLeft - (r.item.size + WifiOverhead),
                             IF r.marked THEN markedCount + 1 ELSE markedCount,
                             i + 1)
        FromClassic(r) ==
            IF r.item = NoItem
            THEN PendingLoop(r.d, pendingBytesLeft, markedCount, i + 1)
            ELSE IF ~(r.item.size + WifiOverhead <= pendingBytesLeft)
            THEN [d |-> [r.d EXCEPT !.abort = "Error, insufficient pending bytes"],
                  markedCount |-> markedCount]
            ELSE PendingLoop(AddToClassicStagingQueue(r.d, r.item),
                             pendingBytesLeft - (r.item.size + WifiOverhead),
                             markedCount, i + 1)
        Scheduled(s) ==
            IF s.d.abort # "" THEN [d |-> s.d, markedCount |-> markedCount]
            ELSE IF s.sel = L4S THEN FromL4s(DequeueFromL4sQueue(s.d, FALSE))
            ELSE IF s.sel = CLASSIC
            THEN FromClassic(DequeueFromClassicQueue(s.d, FALSE))
            ELSE [d |-> s.d, markedCount |-> markedCount]
        Eligible(eligible) ==
            IF ~eligible.first /\ ~eligible.second
            THEN [d |-> d, markedCount |-> markedCount]
            ELSE Scheduled(Scheduler(d, eligible))
    IN  Eligible(CanSchedule(d, pendingBytesLeft))

\* The top-up loop without the count of marks still to make
RECURSIVE MarkTopUpAll(_, _, _, _)
MarkTopUpAll(q, it, pendingMarks, log) ==
    IF it > Len(q) \/ pendingMarks = 0 THEN [q |-> q, log |-> log]
    ELSE IF q[it].ip /\ q[it].ecn = ECT1
    THEN MarkTopUpAll([q EXCEPT ![it] = Mark(q[it]).item], it + 1, pendingMarks,
                      log \cup {[item |-> q[it], site |-> "PendingDequeueCallback"]})
    ELSE MarkTopUpAll(q, it + 1, pendingMarks, log)

\* The while loop over m_l4sStagingQueue that tops the marks up, from
\* position it on: [q, log]
RECURSIVE MarkTopUp(_, _, _, _)
MarkTopUp(q, it, pendingMarks, log) ==
    IF it > Len(q) \/ pendingMarks = 0 THEN [q |-> q, log |-> log]
    ELSE IF q[it].ip /\ q[it].ecn = ECT1
    THEN MarkTopUp([q EXCEPT ![it] = Mark(q[it]).item], it + 1, pendingMarks - 1,
                   log \cup {[item |-> q[it], site |-> "PendingDequeueCallback"]})
    ELSE MarkTopUp(q, it + 1, pendingMarks, log)

\* PendingDequeueCallback that does not ask whether the device queue is stopped
PendingDequeueIgnoresStopped(d, pendingBytes, stopped) ==
    LET queueDiscPending == GetNBytes(d) + WifiOverhead * GetNPackets(d)
        Topped(e, t) == [e EXCEPT !.sL = t.q, !.markLog = t.log]
        Staged(l) ==
            IF l.d.abort # "" THEN l.d
            ELSE IF l.markedCount # 0 /\ ~(pCL > 0)
            THEN [l.d EXCEPT !.abort =
                    "There should not be any marks if coupling probability is zero"]
            ELSE IF Len(l.d.qL) > l.markedCount
            THEN Topped(l.d, MarkTopUp(l.d.sL, 1, Len(l.d.qL) - l.markedCount,
                                       l.d.markLog))
            ELSE l.d
    IN  IF pendingBytes > queueDiscPending THEN d
        ELSE Staged(PendingLoop(d, pendingBytes, 0, 0))

\* PendingDequeueCallback after the samples are stored: the object it leaves
PendingDequeue(d, pendingBytes, stopped) ==
    LET queueDiscPending == GetNBytes(d) + WifiOverhead * GetNPackets(d)
        Topped(e, t) == [e EXCEPT !.sL = t.q, !.markLog = t.log]
        Staged(l) ==
            IF l.d.abort # "" THEN l.d
            ELSE IF l.markedCount # 0 /\ ~(pCL > 0)
            THEN [l.d EXCEPT !.abort =
                    "There should not be any marks if coupling probability is zero"]
            ELSE IF Len(l.d.qL) > l.markedCount
            THEN Topped(l.d, MarkTopUp(l.d.sL, 1, Len(l.d.qL) - l.markedCount,
                                       l.d.markLog))
            ELSE l.d
    IN  IF ~stopped THEN d
        ELSE IF pendingBytes > queueDiscPending THEN d
        ELSE Staged(PendingLoop(d, pendingBytes, 0, 0))

\* DualPi2QueueDisc::PendingDequeueCallback; stopped is what
\* GetNetDeviceQueueInterface()->GetTxQueue(0)->IsStopped() answers (FALSE
\* also when there is no interface)
PendingDequeueCallback(pendingBytes, stopped) ==
    /\ aborted = ""
    /\ LET Return(d) ==
               IF d.abort # "" THEN Abort(d.abort)
               ELSE /\ Commit(d)
                    /\ cLatencySample' = IF qC # << >> THEN now - Head(qC).ts ELSE 0
                    /\ lLatencySample' = IF qL # << >> THEN now - Head(qL).ts ELSE 0
                    /\ cBytesSample' = GetNBytesOf(qC)
                    /\ UNCHANGED << baseProb, pC, pCL, prevQ,
                                    disableLaqm, enableWifiClassicLatencyEstimator,
                                    aggBufferLimit, source, startTime, disposed,
                                    recurRun, config, initialized,
                                    now, rtrsEvent, aborted,
                                    offered, handed, lastC, lastL,
                                    servedC, servedL, forcedDrops >>
       IN  Return(PendingDequeue(Cur, pendingBytes, stopped))

\* The queue delay measured from the oldest packet of each class, staged or
\* not
CurQCountsStaged ==
    LET cAll == sC \o qC
        lAll == sL \o qL
        l1 == Max(cLatencySample, lLatencySample)
        l2 == (cBytesSample * Target) \div aggBufferLimit
        cQ == IF enableWifiClassicLatencyEstimator THEN Min(l1, l2)
              ELSE IF cAll # << >> THEN now - Head(cAll).ts ELSE 0
        lQ == IF lAll # << >> THEN now - Head(lAll).ts ELSE 0
    IN  Max(cQ, lQ)

\* The queue delay measured without the Wi-Fi estimator, whatever the
\* attribute says
CurQIgnoresEstimator ==
    LET cQ == IF qC # << >> THEN now - Head(qC).ts ELSE 0
        lQ == IF qL # << >> THEN now - Head(qL).ts ELSE 0
    IN  Max(cQ, lQ)

\* The queue delay DualPi2Update measures (ms)
CurQ ==
    LET l1 == Max(cLatencySample, lLatencySample)
        l2 == (cBytesSample * Target) \div aggBufferLimit
        cQ == IF enableWifiClassicLatencyEstimator THEN Min(l1, l2)
              ELSE IF qC # << >> THEN now - Head(qC).ts ELSE 0
        lQ == IF qL # << >> THEN now - Head(qL).ts ELSE 0
    IN  Max(cQ, lQ)

\* m_baseProb after a DualPi2Update that does not clamp it
NextBaseProbNoClamp(curQ) ==
    baseProb + AlphaNum * (curQ - Target) + BetaNum * (curQ - prevQ)

\* m_baseProb after DualPi2Update, clamped to [0, 1]
NextBaseProb(curQ) ==
    Min(Max(baseProb + AlphaNum * (curQ - Target) + BetaNum * (curQ - prevQ), 0),
        BaseOne)

\* m_pC that is not squared
ClassicProbLinear(b) == b * BaseOne

\* m_pCL and m_pC after DualPi2Update, from the new m_baseProb
CoupledProb(b) == Min(b * K * BaseOne, One)
ClassicProb(b) == b * b

\* DualPi2QueueDisc::DualPi2Update, run by the event m_rtrsEvent holds
DualPi2Update ==
    /\ aborted = ""
    /\ rtrsEvent = {now}
    /\ IF enableWifiClassicLatencyEstimator /\ aggBufferLimit = 0
       THEN Abort("Configuration error: aggregation buffer limit is not set")
       ELSE /\ baseProb' = NextBaseProb(CurQ)
            /\ pCL' = CoupledProb(baseProb')
            /\ pC' = ClassicProb(baseProb')
            /\ prevQ' = CurQ
            /\ rtrsEvent' = {now + Tupdate}
            /\ UNCHANGED << qC, qL, sC, sL, pL, classicCount, l4sCount,
                            llDeficit, classicDeficit, drrQueues,
                            cLatencySample, lLatencySample, cBytesSample,
                            disableLaqm, enableWifiClassicLatencyEstimator,
                            aggBufferLimit, source, startTime, disposed,
                            recurRun, config, initialized,
                            now, aborted,
                            offered, handed, lastC, lastL, servedC, servedL,
                            forcedDrops,
                            l4sDrops, classicDrops >>

\* The simulator moves to the next instant; a pending event is never skipped
Advance ==
    /\ aborted = ""
    /\ \E t \in Instants :
          /\ t > now
          /\ \A u \in Instants : u > now => t <= u
          /\ \A e \in rtrsEvent : t <= e
          /\ now' = t
    /\ UNCHANGED << qC, qL, sC, sL, baseProb, pC, pCL, pL, prevQ, classicCount,
                    l4sCount, llDeficit, classicDeficit, drrQueues,
                    cLatencySample, lLatencySample, cBytesSample,
                    disableLaqm, enableWifiClassicLatencyEstimator, aggBufferLimit,
                    source, startTime, disposed,
                    recurRun, config, initialized,
                    rtrsEvent, aborted,
                    offered, handed, lastC, lastL, servedC, servedL,
                    forcedDrops, l4sDrops,
                    classicDrops >>

\* No run of Recur calls is being followed
NoRecurRun == [p |-> 0, count0 |-> 0, count |-> 0, calls |-> 0, hits |-> 0]

\* The configuration of the runs: attribute Mtu set, no classes, no packet
\* filters and no internal queue added, so that CheckConfig creates the two
\* internal queues itself, each of QueueLimit bytes
TheConfig ==
    [mtu |-> Mtu, devMtu |-> 0, nClasses |-> 0, nFilters |-> 0,
     nQueues |-> 0, maxSizeC |-> QueueLimit, maxSizeL |-> QueueLimit]

\* The object after its constructor, CheckConfig and InitializeParams
Init ==
    /\ qC = << >> /\ qL = << >> /\ sC = << >> /\ sL = << >>
    /\ baseProb = 0 /\ pC = 0 /\ pCL = 0 /\ pL = 0 /\ prevQ = 0
    /\ classicCount = 0 /\ l4sCount = 0
    /\ llDeficit = 0 /\ classicDeficit = 0 /\ drrQueues = {}
    /\ cLatencySample = 0 /\ lLatencySample = 0 /\ cBytesSample = 0
    /\ disableLaqm = FALSE
    /\ enableWifiClassicLatencyEstimator = FALSE
    /\ aggBufferLimit = 0
    /\ source \in Mixes
    /\ startTime = 0
    /\ disposed = FALSE
    /\ recurRun = NoRecurRun
    /\ config = TheConfig
    /\ initialized = TRUE
    /\ now = 0
    /\ rtrsEvent = {0}
    /\ aborted = ""
    /\ offered = 0 /\ handed = 0 /\ lastC = 0 /\ lastL = 0
    /\ servedC = 0 /\ servedL = 0
    /\ forcedDrops = 0 /\ l4sDrops = 0 /\ classicDrops = 0

Next ==
    \/ \E kind \in PktKinds : DoEnqueue(kind)
    \/ DoDequeue
    \/ \E pendingBytes \in PendingBytesSet, stopped \in BOOLEAN :
          PendingDequeueCallback(pendingBytes, stopped)
    \/ DualPi2Update
    \/ Advance

Spec == Init /\ [][Next]_vars

\* ------------------------------------------------- the backlogged source
\* A source that keeps both internal queues backlogged with packets of one
\* size: it offers a packet of a class whenever the queue of that class is
\* empty, and the device asks for a packet only while both queues hold one.
\* Nothing is staged and the controller stays at base_prob = 0.
Ect1Quantum   == [size |-> DrrQuantum, ip |-> TRUE, ecn |-> ECT1]
NotEctQuantum == [size |-> DrrQuantum, ip |-> TRUE, ecn |-> NotECT]

BackloggedMixes ==
    { {Ect1Quantum, NotEctQuantum},
      {Ect1Big, Ect0Big},
      {Ect1Small, NotEctSmall} }

\* DualPi2QueueDisc::DoEnqueue, called by the backlogged source
BackloggedEnqueue(kind) ==
    /\ aborted = ""
    /\ offered < MaxBacklog
    /\ kind \in source
    /\ IF IsL4s(NewItem(kind)) THEN qL = << >> ELSE qC = << >>
    /\ LET item == NewItem(kind)
           r == Enqueue(Cur, item)
       IN  /\ Commit(r.d)
           /\ offered' = offered + 1
           /\ forcedDrops' = IF r.ok THEN forcedDrops ELSE forcedDrops + 1
    /\ UNCHANGED << baseProb, pC, pCL, prevQ,
                    cLatencySample, lLatencySample, cBytesSample,
                    disableLaqm, enableWifiClassicLatencyEstimator, aggBufferLimit,
                    source, startTime, disposed,
                    recurRun, config, initialized,
                    now, rtrsEvent, aborted, handed, lastC, lastL,
                    servedC, servedL >>

\* DualPi2QueueDisc::DoDequeue, called while both queues are backlogged
BackloggedDequeue ==
    /\ qL # << >> /\ qC # << >>
    /\ DoDequeue

InitBacklogged ==
    /\ qC = << >> /\ qL = << >> /\ sC = << >> /\ sL = << >>
    /\ baseProb = 0 /\ pC = 0 /\ pCL = 0 /\ pL = 0 /\ prevQ = 0
    /\ classicCount = 0 /\ l4sCount = 0
    /\ llDeficit = 0 /\ classicDeficit = 0 /\ drrQueues = {}
    /\ cLatencySample = 0 /\ lLatencySample = 0 /\ cBytesSample = 0
    /\ disableLaqm = FALSE
    /\ enableWifiClassicLatencyEstimator = FALSE
    /\ aggBufferLimit = 0
    /\ source \in BackloggedMixes
    /\ startTime = 0
    /\ disposed = FALSE
    /\ recurRun = NoRecurRun
    /\ config = TheConfig
    /\ initialized = TRUE
    /\ now = 0
    /\ rtrsEvent = {0}
    /\ aborted = ""
    /\ offered = 0 /\ handed = 0 /\ lastC = 0 /\ lastL = 0
    /\ servedC = 0 /\ servedL = 0
    /\ forcedDrops = 0 /\ l4sDrops = 0 /\ classicDrops = 0

NextBacklogged ==
    \/ \E kind \in UNION BackloggedMixes : BackloggedEnqueue(kind)
    \/ BackloggedDequeue
    \/ DualPi2Update

SpecBacklogged == InitBacklogged /\ [][NextBacklogged]_vars

\* ---------------------------------------------------------- the lifecycle
\* The values attribute StartTime is configured to (ms)
StartTimes == {0, 1, Tupdate}

\* m_startTime as the constructor reads it (ms).  The constructor initializes
\* no member and the attribute system sets m_startTime through its accessor
\* on the constructed object, so the constructor reads the member as its
\* default constructor left it, Time() = 0, whatever StartTime is set to.
StartTimeInConstructor == 0

\* DualPi2QueueDisc::DoDispose: m_rtrsEvent.Cancel().  The framework calls no
\* handler of a disposed queue disc.
DoDispose ==
    /\ aborted = ""
    /\ ~disposed
    /\ rtrsEvent' = {}
    /\ disposed' = TRUE
    /\ UNCHANGED << qC, qL, sC, sL, baseProb, pC, pCL, pL, prevQ, classicCount,
                    l4sCount, llDeficit, classicDeficit, drrQueues,
                    cLatencySample, lLatencySample, cBytesSample,
                    disableLaqm, enableWifiClassicLatencyEstimator, aggBufferLimit,
                    source, startTime, now, aborted,
                    recurRun, config, initialized,
                    offered, handed, lastC, lastL, servedC, servedL,
                    forcedDrops, l4sDrops, classicDrops >>

\* The object after its constructor, the attributes, CheckConfig and
\* InitializeParams, with StartTime configured
InitLifecycle ==
    /\ qC = << >> /\ qL = << >> /\ sC = << >> /\ sL = << >>
    /\ baseProb = 0 /\ pC = 0 /\ pCL = 0 /\ pL = 0 /\ prevQ = 0
    /\ classicCount = 0 /\ l4sCount = 0
    /\ llDeficit = 0 /\ classicDeficit = 0 /\ drrQueues = {}
    /\ cLatencySample = 0 /\ lLatencySample = 0 /\ cBytesSample = 0
    /\ disableLaqm = FALSE
    /\ enableWifiClassicLatencyEstimator = FALSE
    /\ aggBufferLimit = 0
    /\ source \in Mixes
    /\ startTime \in StartTimes
    /\ disposed = FALSE
    /\ recurRun = NoRecurRun
    /\ config = TheConfig
    /\ initialized = TRUE
    /\ now = 0
    /\ rtrsEvent = {now + StartTimeInConstructor}
    /\ aborted = ""
    /\ offered = 0 /\ handed = 0 /\ lastC = 0 /\ lastL = 0
    /\ servedC = 0 /\ servedL = 0
    /\ forcedDrops = 0 /\ l4sDrops = 0 /\ classicDrops = 0

NextLifecycle ==
    \/ ~disposed /\ \E kind \in PktKinds : DoEnqueue(kind)
    \/ ~disposed /\ DoDequeue
    \/ DualPi2Update
    \/ Advance
    \/ DoDispose

SpecLifecycle == InitLifecycle /\ [][NextLifecycle]_vars

\* ------------------------------------------------- a standing L4S queue
\* A source of 800-byte ECT(1) packets that offers one packet more than the
\* source of the other runs, with LAQM enabled or disabled: an L4S packet
\* can be dequeued, and another enqueued, before a queue of three stands for
\* one timer period.
StandingMixes == { {Ect1Small} }

\* DualPi2QueueDisc::DoEnqueue, called by the source of the standing queue
StandingEnqueue(kind) ==
    /\ aborted = ""
    /\ offered < MaxStanding
    /\ kind \in source
    /\ now < Tupdate
    /\ LET item == NewItem(kind)
           r == Enqueue(Cur, item)
       IN  /\ Commit(r.d)
           /\ offered' = offered + 1
           /\ forcedDrops' = IF r.ok THEN forcedDrops ELSE forcedDrops + 1
    /\ UNCHANGED << baseProb, pC, pCL, prevQ,
                    cLatencySample, lLatencySample, cBytesSample,
                    disableLaqm, enableWifiClassicLatencyEstimator, aggBufferLimit,
                    source, startTime, disposed,
                    recurRun, config, initialized,
                    now, rtrsEvent, aborted, handed, lastC, lastL,
                    servedC, servedL >>

InitStanding ==
    /\ qC = << >> /\ qL = << >> /\ sC = << >> /\ sL = << >>
    /\ baseProb = 0 /\ pC = 0 /\ pCL = 0 /\ pL = 0 /\ prevQ = 0
    /\ classicCount = 0 /\ l4sCount = 0
    /\ llDeficit = 0 /\ classicDeficit = 0 /\ drrQueues = {}
    /\ cLatencySample = 0 /\ lLatencySample = 0 /\ cBytesSample = 0
    /\ disableLaqm \in BOOLEAN
    /\ enableWifiClassicLatencyEstimator = FALSE
    /\ aggBufferLimit = 0
    /\ source \in StandingMixes
    /\ startTime = 0
    /\ disposed = FALSE
    /\ recurRun = NoRecurRun
    /\ config = TheConfig
    /\ initialized = TRUE
    /\ now = 0
    /\ rtrsEvent = {0}
    /\ aborted = ""
    /\ offered = 0 /\ handed = 0 /\ lastC = 0 /\ lastL = 0
    /\ servedC = 0 /\ servedL = 0
    /\ forcedDrops = 0 /\ l4sDrops = 0 /\ classicDrops = 0

NextStanding ==
    \/ \E kind \in UNION StandingMixes : StandingEnqueue(kind)
    \/ DoDequeue
    \/ \E pendingBytes \in PendingBytesSet, stopped \in BOOLEAN :
          PendingDequeueCallback(pendingBytes, stopped)
    \/ DualPi2Update
    \/ Advance

SpecStanding == InitStanding /\ [][NextStanding]_vars

\* ------------------------------------------- the Wi-Fi latency estimator
\* What SetAggBufferLimit is called with before the run: not at all (the
\* member stays 0), or a limit of 3000 bytes, which makes
\* m_cBytesSample * m_target / m_aggBufferLimit a whole number of ms for
\* the packet sizes of the traffic source
AggBufferLimits == {0, 3000}

\* The object after its constructor, CheckConfig and InitializeParams, with
\* attribute EnableWifiClassicLatencyEstimator set
InitEstimator ==
    /\ qC = << >> /\ qL = << >> /\ sC = << >> /\ sL = << >>
    /\ baseProb = 0 /\ pC = 0 /\ pCL = 0 /\ pL = 0 /\ prevQ = 0
    /\ classicCount = 0 /\ l4sCount = 0
    /\ llDeficit = 0 /\ classicDeficit = 0 /\ drrQueues = {}
    /\ cLatencySample = 0 /\ lLatencySample = 0 /\ cBytesSample = 0
    /\ disableLaqm = FALSE
    /\ enableWifiClassicLatencyEstimator = TRUE
    /\ aggBufferLimit \in AggBufferLimits
    /\ source \in Mixes
    /\ startTime = 0
    /\ disposed = FALSE
    /\ recurRun = NoRecurRun
    /\ config = TheConfig
    /\ initialized = TRUE
    /\ now = 0
    /\ rtrsEvent = {0}
    /\ aborted = ""
    /\ offered = 0 /\ handed = 0 /\ lastC = 0 /\ lastL = 0
    /\ servedC = 0 /\ servedL = 0
    /\ forcedDrops = 0 /\ l4sDrops = 0 /\ classicDrops = 0

NextEstimator ==
    \/ \E kind \in PktKinds : DoEnqueue(kind)
    \/ DoDequeue
    \/ \E pendingBytes \in PendingBytesSet, stopped \in BOOLEAN :
          PendingDequeueCallback(pendingBytes, stopped)
    \/ DualPi2Update
    \/ Advance

SpecEstimator == InitEstimator /\ [][NextEstimator]_vars

\* ---------------------------------------------------- runs of Recur calls
\* The likelihoods and the counter values a run of Recur calls starts
\* from, in 1/One: the multiples of one eighth in [0, 1]
RecurUnit == One \div 8
RecurLikelihoods == { i * RecurUnit : i \in 0..(One \div RecurUnit) }
RecurCounts == { i * RecurUnit : i \in 0..(One \div RecurUnit) }

\* One call Recur(count, p) of the run
RecurCall ==
    /\ recurRun.calls < MaxCalls
    /\ LET r == Recur(recurRun.count, recurRun.p)
       IN  recurRun' = [recurRun EXCEPT !.count = r.count,
                                        !.calls = @ + 1,
                                        !.hits = IF r.hit THEN @ + 1 ELSE @]
    /\ UNCHANGED << qC, qL, sC, sL, baseProb, pC, pCL, pL, prevQ, classicCount,
                    l4sCount, llDeficit, classicDeficit, drrQueues,
                    cLatencySample, lLatencySample, cBytesSample,
                    disableLaqm, enableWifiClassicLatencyEstimator, aggBufferLimit,
                    source, startTime, disposed, config, initialized,
                    now, rtrsEvent, aborted,
                    offered, handed, lastC, lastL, servedC, servedL,
                    forcedDrops, l4sDrops, classicDrops >>

InitRecur ==
    /\ qC = << >> /\ qL = << >> /\ sC = << >> /\ sL = << >>
    /\ baseProb = 0 /\ pC = 0 /\ pCL = 0 /\ pL = 0 /\ prevQ = 0
    /\ classicCount = 0 /\ l4sCount = 0
    /\ llDeficit = 0 /\ classicDeficit = 0 /\ drrQueues = {}
    /\ cLatencySample = 0 /\ lLatencySample = 0 /\ cBytesSample = 0
    /\ disableLaqm = FALSE
    /\ enableWifiClassicLatencyEstimator = FALSE
    /\ aggBufferLimit = 0
    /\ source \in Mixes
    /\ startTime = 0
    /\ disposed = FALSE
    /\ \E p \in RecurLikelihoods, c \in RecurCounts :
           recurRun = [p |-> p, count0 |-> c, count |-> c, calls |-> 0, hits |-> 0]
    /\ config = TheConfig
    /\ initialized = TRUE
    /\ now = 0
    /\ rtrsEvent = {0}
    /\ aborted = ""
    /\ offered = 0 /\ handed = 0 /\ lastC = 0 /\ lastL = 0
    /\ servedC = 0 /\ servedL = 0
    /\ forcedDrops = 0 /\ l4sDrops = 0 /\ classicDrops = 0

NextRecur == RecurCall

SpecRecur == InitRecur /\ [][NextRecur]_vars

\* ------------------------------------------------------- initialization
\* The RFC 791 minimum InitializeParams requires of m_mtu
MinMtu == 68

\* The configurations: attribute Mtu (0: taken from the device), the MTU of
\* the device (0: no device), the numbers of classes, packet filters and
\* internal queues added before initialization, and the MaxSize of the
\* internal queues added, in bytes
Configs ==
    [ mtu : {0, MinMtu - 1, MinMtu, Mtu},
      devMtu : {0, 1500},
      nClasses : {0, 1},
      nFilters : {0, 1},
      nQueues : 0..3,
      maxSizeC : {1000, QueueLimit, 5000},
      maxSizeL : {1000, QueueLimit, 5000} ]

\* CheckConfig that refuses internal queues larger than the limit
CheckConfigLimitBelowSize(c) ==
    IF c.nClasses > 0 THEN FALSE
    ELSE IF c.nFilters > 0 THEN FALSE
    ELSE LET nInternalQueues == IF c.nQueues = 0 THEN 2 ELSE c.nQueues
             maxSizeC == IF c.nQueues = 0 THEN QueueLimit ELSE c.maxSizeC
             maxSizeL == IF c.nQueues = 0 THEN QueueLimit ELSE c.maxSizeL
         IN  IF nInternalQueues # 2 THEN FALSE
             ELSE IF QueueLimit < maxSizeC THEN FALSE
             ELSE IF QueueLimit < maxSizeL THEN FALSE
             ELSE TRUE

\* DualPi2QueueDisc::CheckConfig
CheckConfig(c) ==
    IF c.nClasses > 0 THEN FALSE
    ELSE IF c.nFilters > 0 THEN FALSE
    ELSE LET nInternalQueues == IF c.nQueues = 0 THEN 2 ELSE c.nQueues
             maxSizeC == IF c.nQueues = 0 THEN QueueLimit ELSE c.maxSizeC
             maxSizeL == IF c.nQueues = 0 THEN QueueLimit ELSE c.maxSizeL
         IN  IF nInternalQueues # 2 THEN FALSE
             ELSE IF maxSizeC < QueueLimit THEN FALSE
             ELSE IF maxSizeL < QueueLimit THEN FALSE
             ELSE TRUE

\* m_mtu after the first statement of InitializeParams
InitialMtu(c) == IF c.mtu = 0 THEN c.devMtu ELSE c.mtu

\* QueueDisc::DoInitialize: CheckConfig, whose refusal is fatal, then
\* DualPi2QueueDisc::InitializeParams
DoInitialize ==
    /\ aborted = ""
    /\ ~initialized
    /\ IF ~CheckConfig(config)
       THEN Abort("The queue disc configuration is not correct")
       ELSE IF InitialMtu(config) < MinMtu
       THEN Abort("Error: MTU does not meet RFC 791 minimum")
       ELSE /\ initialized' = TRUE
            /\ pCL' = 0 /\ pC' = 0 /\ pL' = 0 /\ prevQ' = 0
            /\ UNCHANGED << qC, qL, sC, sL, baseProb, classicCount,
                            l4sCount, llDeficit, classicDeficit, drrQueues,
                            cLatencySample, lLatencySample, cBytesSample,
                            disableLaqm, enableWifiClassicLatencyEstimator,
                            aggBufferLimit, source, startTime, disposed,
                            recurRun, config, now, rtrsEvent, aborted,
                            offered, handed, lastC, lastL, servedC, servedL,
                            forcedDrops, l4sDrops, classicDrops >>

\* The object after its constructor, with its configuration
InitConfig ==
    /\ qC = << >> /\ qL = << >> /\ sC = << >> /\ sL = << >>
    /\ baseProb = 0 /\ pC = 0 /\ pCL = 0 /\ pL = 0 /\ prevQ = 0
    /\ classicCount = 0 /\ l4sCount = 0
    /\ llDeficit = 0 /\ classicDeficit = 0 /\ drrQueues = {}
    /\ cLatencySample = 0 /\ lLatencySample = 0 /\ cBytesSample = 0
    /\ disableLaqm = FALSE
    /\ enableWifiClassicLatencyEstimator = FALSE
    /\ aggBufferLimit = 0
    /\ source = {Ect1Big, NotEctSmall}
    /\ startTime = 0
    /\ disposed = FALSE
    /\ recurRun = NoRecurRun
    /\ config \in Configs
    /\ initialized = FALSE
    /\ now = 0
    /\ rtrsEvent = {0}
    /\ aborted = ""
    /\ offered = 0 /\ handed = 0 /\ lastC = 0 /\ lastL = 0
    /\ servedC = 0 /\ servedL = 0
    /\ forcedDrops = 0 /\ l4sDrops = 0 /\ classicDrops = 0

\* The framework passes packets to an initialized queue disc only
NextConfig ==
    \/ DoInitialize
    \/ initialized /\ \E kind \in PktKinds : DoEnqueue(kind)

SpecConfig == InitConfig /\ [][NextConfig]_vars

\* ------------------------------------------------------------ properties
AllQueued == qC \o qL \o sC \o sL
EctOneOrCe(ecn) == ecn = ECT1 \/ ecn = CE

\* C1: every packet offered to enqueue has been handed to the device, or
\* dropped (at enqueue for the queue limit, or by the AQM at dequeue), or is
\* held in exactly one of the queues Q_C, Q_L, S_C, S_L; no packet is held
\* twice and none is lost.
Conservation ==
    /\ offered = handed + forcedDrops + l4sDrops + classicDrops + Len(AllQueued)
    /\ Cardinality(Ids(AllQueued)) = Len(AllQueued)
    /\ \A i \in 1..Len(AllQueued) : AllQueued[i].id \in 1..offered

ConservationWitness ==
    /\ handed > 0
    /\ l4sDrops + classicDrops > 0
    /\ sL # << >> \/ sC # << >>

\* C2: within one class the packets are handed off in the order in which they
\* were accepted: every hand-off is of a packet accepted after the packet of
\* its class that was handed off before it, through the staging queues too.
FifoHandOff ==
    [][handed' # handed =>
          \/ lastL' > lastL /\ lastC' = lastC
          \/ lastC' > lastC /\ lastL' = lastL]_vars

FifoHandOffWitness ==
    /\ handed >= 1
    /\ lastL >= 1
    /\ sL # << >>
    /\ qL # << >>

\* C3: between handlers the bytes held in Q_C and Q_L together never exceed
\* the queue limit.
QueueLimitInvariant == GetNBytesOf(qC) + GetNBytesOf(qL) <= QueueLimit

QueueLimitWitness ==
    /\ GetNBytesOf(qC) + GetNBytesOf(qL) = QueueLimit
    /\ qC # << >>
    /\ qL # << >>

\* C4: an enqueue is refused (a forced tail drop) exactly when the bytes in
\* Q_C and Q_L plus the size of the item exceed the queue limit; otherwise the
\* item is accepted and goes to the tail of the queue of its class.  With a
\* limit of 3000 bytes and two 1400-byte packets queued, a third is refused.
EnqueueAdmission ==
    \A kind \in PktKinds :
        LET item == NewItem(kind)
            r == Enqueue(Cur, item)
            exceeds == GetNBytesOf(qC) + GetNBytesOf(qL) + item.size > QueueLimit
        IN  /\ r.ok <=> ~exceeds
            /\ r.ok /\ item.ip /\ EctOneOrCe(item.ecn) =>
                   r.d.qL = Append(qL, item) /\ r.d.qC = qC
            /\ r.ok /\ ~(item.ip /\ EctOneOrCe(item.ecn)) =>
                   r.d.qC = Append(qC, item) /\ r.d.qL = qL

EnqueueAdmissionWitness ==
    /\ offered = 3
    /\ forcedDrops = 1
    /\ handed = 0
    /\ Len(qC) = 2
    /\ \A i \in 1..Len(qC) : qC[i].size = 1400 /\ qC[i].id = i

\* C5: an enqueue that fails changes nothing but the forced-drop count: the
\* queues, the staging queues, the deficits, the scheduler's active set, the
\* Recur counters and the probabilities are as they were.
FailedEnqueueChangesNothing ==
    [][forcedDrops' # forcedDrops =>
          /\ forcedDrops' = forcedDrops + 1
          /\ UNCHANGED << qC, qL, sC, sL, llDeficit, classicDeficit, drrQueues,
                          classicCount, l4sCount, baseProb, pC, pCL, pL, prevQ,
                          l4sDrops, classicDrops, handed >>]_vars

FailedEnqueueWitness ==
    /\ forcedDrops > 0
    /\ qL # << >>
    /\ baseProb > 0

\* C6: Q_L and S_L hold only packets that arrived with ECT(1) or CE in a
\* readable DS field; Q_C and S_C hold only packets that arrived with Not-ECT
\* or ECT(0), or without a readable DS field.
Classification ==
    /\ \A i \in 1..Len(qL \o sL) :
           (qL \o sL)[i].ip /\ EctOneOrCe((qL \o sL)[i].ecn0)
    /\ \A i \in 1..Len(qC \o sC) :
           ~(qC \o sC)[i].ip \/ (qC \o sC)[i].ecn0 \in {NotECT, ECT0}

ClassificationWitness ==
    /\ \E i \in 1..Len(qL \o sL) : (qL \o sL)[i].ecn0 = CE
    /\ \E i \in 1..Len(qC \o sC) : ~(qC \o sC)[i].ip

\* C7 as stated: the four probabilities stay in their ranges, the Classic
\* probability within [0, p_C_max].
ProbabilityBoundsAsStated ==
    /\ 0 <= baseProb /\ baseProb <= BaseOne
    /\ 0 <= pCL /\ pCL <= One
    /\ 0 <= pL /\ pL <= One
    /\ 0 <= pC /\ pC <= PCmax

\* C7: base_prob, p_CL, p_L and p_C all stay within [0, 1].  p_C is the square
\* of base_prob and passes p_C_max = min(1/k^2, 1) as soon as base_prob passes
\* 1/k; p_C_max is the threshold of the overload test, not a bound of p_C.
ProbabilityBounds ==
    /\ 0 <= baseProb /\ baseProb <= BaseOne
    /\ 0 <= pCL /\ pCL <= One
    /\ 0 <= pL /\ pL <= One
    /\ 0 <= pC /\ pC <= One

ProbabilityBoundsWitness ==
    /\ pC > PCmax
    /\ pCL = One
    /\ baseProb < BaseOne

\* C8: between handlers p_CL = min(k * base_prob, 1) and p_C = base_prob^2.
Coupling ==
    /\ pCL = (IF K * baseProb >= BaseOne THEN One ELSE K * baseProb * BaseOne)
    /\ pC = baseProb * baseProb

CouplingWitness ==
    /\ baseProb > 0
    /\ K * baseProb > BaseOne
    /\ baseProb < BaseOne

\* C9: the AQM drops an L4S packet only in a state where p_CL >= 1; while
\* p_CL < 1 the L4S path marks and never drops.
L4sDropOnlyInOverload ==
    [][l4sDrops' # l4sDrops => pCL >= One /\ pCL' >= One]_vars

L4sDropWitness == l4sDrops > 0 /\ pCL >= One

\* The mark attempts of every handler run that can start in this state
MarkAttempts ==
    Dequeue(Cur).d.markLog
    \cup UNION { PendingDequeue(Cur, pendingBytes, stopped).markLog :
                   pendingBytes \in PendingBytesSet, stopped \in BOOLEAN }

\* C10: only packets that carry ECT(1) or CE are ever CE-marked, at dequeue
\* from Q_L and in the mark top-up over S_L alike: no Not-ECT packet is
\* marked, and the assertion on the result of Mark in the L4S dequeue path
\* never fails.
MarksOnlyOnL4s ==
    /\ aborted # "Make sure we can mark in L4S queue"
    /\ \A m \in MarkAttempts : m.item.ip /\ EctOneOrCe(m.item.ecn)
    /\ \A i \in 1..Len(AllQueued) :
           AllQueued[i].ecn # AllQueued[i].ecn0 =>
               AllQueued[i].ecn0 = ECT1 /\ AllQueued[i].ecn = CE

MarksOnlyOnL4sWitness ==
    /\ \E i \in 1..Len(sL) : sL[i].ecn0 = ECT1 /\ sL[i].ecn = CE
    /\ \E i \in 1..Len(AllQueued) : AllQueued[i].ecn0 = NotECT

\* C11: while S_L or S_C holds packets, a dequeue hands off the head of S_L,
\* or the head of S_C once S_L is empty, and changes nothing else: Q_C, Q_L,
\* the deficits, the active set and the Recur counters stay, no packet is
\* dropped.  Enqueues and PI2 updates in between leave S_L and S_C alone, so
\* n staged packets are the next n packets handed off, S_L first.
StagedHandOut ==
    [][/\ (handed' # handed /\ (sL # << >> \/ sC # << >>)) =>
              /\ IF sL # << >>
                 THEN sL' = Tail(sL) /\ sC' = sC /\ lastL' = Head(sL).id
                      /\ lastC' = lastC
                 ELSE sC' = Tail(sC) /\ sL' = sL /\ lastC' = Head(sC).id
                      /\ lastL' = lastL
              /\ UNCHANGED << qC, qL, llDeficit, classicDeficit, drrQueues,
                              classicCount, l4sCount, l4sDrops, classicDrops >>
       /\ (offered' # offered \/ rtrsEvent' # rtrsEvent) =>
              UNCHANGED << sL, sC >>
       /\ (sL # << >> \/ sC # << >>) /\ aborted = "" /\ aborted' = "" =>
              (handed' # handed <=> (Len(sL') + Len(sC') < Len(sL) + Len(sC)))
      ]_vars

StagedHandOutWitness ==
    /\ handed >= 1
    /\ lastL >= 1
    /\ lastC = 0
    /\ sL = << >>
    /\ sC # << >>

\* Bytes, framing included, of the packets of a record's staging queues
StagedWifiBytes(d) ==
    GetNBytesOf(d.sL) + GetNBytesOf(d.sC) + WifiOverhead * (Len(d.sL) + Len(d.sC))

\* C12: every packet one PendingDequeueCallback stages fits the budget that
\* is left when it is staged: the assertion "Error, insufficient pending
\* bytes" never fails, and what one call stages, framing included, is at
\* most pendingBytes.
PendingBudgetRespected ==
    /\ aborted # "Error, insufficient pending bytes"
    /\ \A pendingBytes \in PendingBytesSet :
           LET e == PendingDequeue(Cur, pendingBytes, TRUE)
           IN  /\ e.abort # "Error, insufficient pending bytes"
               /\ e.abort = "" =>
                      StagedWifiBytes(e) - StagedWifiBytes(Cur) <= pendingBytes

\* The three estimator samples hold what a PendingDequeueCallback reads on entry
SamplesRefreshed ==
    /\ cLatencySample' = (IF qC # << >> THEN now - Head(qC).ts ELSE 0)
    /\ lLatencySample' = (IF qL # << >> THEN now - Head(qL).ts ELSE 0)
    /\ cBytesSample' = GetNBytesOf(qC)

\* C13: a PendingDequeueCallback whose device queue is not stopped, or whose
\* pendingBytes exceeds the bytes of Q_C and Q_L plus 38 per packet, only
\* refreshes the three samples: no packet is moved, dropped or marked, and
\* the queues, deficits, active set and Recur counters stay.  Every call
\* that returns refreshes the three samples.
PendingOnlyWhenNeeded ==
    [][\A pendingBytes \in PendingBytesSet, stopped \in BOOLEAN :
           PendingDequeueCallback(pendingBytes, stopped) =>
               /\ aborted' = "" => SamplesRefreshed
               /\ (~stopped \/ pendingBytes >
                       GetNBytesOf(qC) + GetNBytesOf(qL)
                       + 38 * (Len(qC) + Len(qL))) =>
                      /\ SamplesRefreshed
                      /\ UNCHANGED << qC, qL, sC, sL, llDeficit, classicDeficit,
                                      drrQueues, classicCount, l4sCount, pL,
                                      baseProb, pC, pCL, prevQ, aborted, offered,
                                      handed, forcedDrops, l4sDrops,
                                      classicDrops >>
      ]_vars

PendingOnlyWhenNeededWitness ==
    /\ lLatencySample > 0
    /\ cBytesSample > 0
    /\ sL = << >> /\ sC = << >>
    /\ handed = 0
    /\ Len(qL) + Len(qC) = 3
    /\ aborted = ""

\* C14: PendingDequeueCallback(0) changes nothing but the three samples,
\* whether the device queue is stopped or not and whether the staging queues
\* are empty or still hold an earlier batch: no packet is moved, dropped or
\* marked, no deficit, active set or Recur counter changes.
PendingZeroChangesNothing ==
    \A stopped \in BOOLEAN : PendingDequeue(Cur, 0, stopped) = Cur

\* q with CE set on its first n packets that carry ECT(1)
FirstEct1Marked(q, n) ==
    [i \in 1..Len(q) |->
        IF q[i].ecn = ECT1
           /\ Cardinality({j \in 1..i : q[j].ecn = ECT1}) <= n
        THEN [q[i] EXCEPT !.ecn = CE]
        ELSE q[i]]
NumberOf(q, ecn) == Cardinality({i \in 1..Len(q) : q[i].ecn = ecn})

\* C15: when a PendingDequeueCallback reaches the staging loop and returns,
\* with r packets left in Q_L after the loop and m L4S packets marked in the
\* loop: if m >= r the top-up modifies no staged packet; if m < r it sets CE
\* on the first min(r - m, ECT(1) packets in S_L) packets of S_L that carry
\* ECT(1), in FIFO order, and on nothing else; on return S_L holds at least
\* min(r, |S_L|) CE packets.
MarkTopUpEffect ==
    \A pendingBytes \in PendingBytesSet :
        LET l == PendingLoop(Cur, pendingBytes, 0, 0)
            e == PendingDequeue(Cur, pendingBytes, TRUE)
            r == Len(l.d.qL)
            m == l.markedCount
        IN  (/\ pendingBytes <= GetNBytesOf(qC) + GetNBytesOf(qL)
                                  + 38 * (Len(qC) + Len(qL))
             /\ e.abort = "") =>
                /\ m >= r => e.sL = l.d.sL
                /\ m < r => e.sL = FirstEct1Marked(l.d.sL, r - m)
                /\ NumberOf(e.sL, CE) >= Min(r, Len(e.sL))
                /\ [e EXCEPT !.sL = l.d.sL, !.markLog = {}]
                       = [l.d EXCEPT !.markLog = {}]

MarkTopUpWitness ==
    /\ Len(sL) = 2
    /\ sL[1].ecn = CE /\ sL[1].ecn0 = ECT1
    /\ sL[2].ecn = ECT1
    /\ Len(qL) = 1
    /\ handed = 0

\* C16 as stated: below saturation, the last packet of Q_L (nothing queued
\* behind it) is never CE-marked by DequeueFromL4sQueue.
SinglePacketNeverMarked ==
    (pCL < PLmax /\ Len(qL) = 1) =>
        LET r == DequeueFromL4sQueue(Cur, FALSE)
        IN  ~r.marked /\ r.item = Head(qL)

\* C16: below saturation, an L4S packet dequeued when no more than one packet
\* stays behind it in Q_L gets no LAQM marking: p_L is the coupled
\* probability p_CL alone, and the packet is CE-marked exactly when
\* Recur(l4sCount, p_CL) fires; with p_CL = 0 it is never marked.
SinglePacketNoLaqm ==
    (pCL < PLmax /\ qL # << >> /\ Len(qL) - 1 <= 1) =>
        LET r == DequeueFromL4sQueue(Cur, FALSE)
            fires == l4sCount + pCL > One
        IN  r.d.abort = "" =>
                /\ r.d.pL = pCL
                /\ r.marked <=> fires
                /\ r.d.l4sCount = (IF fires THEN l4sCount + pCL - One
                                   ELSE l4sCount + pCL)
                /\ r.item = (IF fires THEN [Head(qL) EXCEPT !.ecn = CE]
                             ELSE Head(qL))
                /\ pCL = 0 => ~r.marked

SinglePacketWitness ==
    /\ 0 < pCL /\ pCL < PLmax
    /\ pL = pCL
    /\ l4sCount < pCL
    /\ lastL >= 1
    /\ qL = << >> /\ sL = << >>

\* C17: DequeueFromClassicQueue never drops a packet whose removal leaves
\* fewer than 2 * MTU bytes in Q_C, whatever p_C is, and so never empties a
\* non-empty Q_C by drops alone.
ClassicTwoMtuHeuristic ==
    LET r == DequeueFromClassicQueue(Cur, FALSE)
        dropped == {x.item.id : x \in r.d.dropLog}
    IN  /\ \A i \in 1..Len(qC) :
               qC[i].id \in dropped =>
                   GetNBytesOf(SubSeq(qC, i + 1, Len(qC))) >= 2 * Mtu
        /\ qC # << >> => r.item # NoItem

\* C18: DoDequeue returns a packet whenever S_L or S_C holds one, and
\* otherwise schedules and applies the AQM until a packet survives: it
\* returns nothing only when it leaves S_L, S_C, Q_C and Q_L all empty.
WorkConservation ==
    LET r == Dequeue(Cur)
    IN  /\ r.d.abort = ""
        /\ (sL # << >> \/ sC # << >>) => r.item # NoItem
        /\ r.item = NoItem =>
               r.d.sL = << >> /\ r.d.sC = << >> /\ r.d.qC = << >> /\ r.d.qL = << >>
        /\ r.item # NoItem => r.item.id \in Ids(AllQueued)

WorkConservationWitness ==
    /\ l4sDrops + classicDrops > 0
    /\ handed >= 1
    /\ sL = << >> /\ sC = << >>
    /\ cLatencySample = 0 /\ lLatencySample = 0 /\ cBytesSample = 0


\* The two classes have a packet at the head that their deficits do not
\* cover: the round is complete, the next Scheduler call starts a new one.
RoundComplete ==
    /\ qL # << >> /\ qC # << >>
    /\ Head(qL).size > llDeficit
    /\ Head(qC).size > classicDeficit

\* The bytes credited so far to a class: those served and those still held
\* as deficit.
CreditedL == servedL + llDeficit
CreditedC == servedC + classicDeficit

\* C19 as stated: with both queues backlogged with equal-sized packets of
\* size s <= q, every complete round credits L with w*q bytes and C with q
\* bytes, and after any number of complete rounds the bytes served from L are
\* exactly w times the bytes served from C.
WeightedShareExact ==
    /\ CreditedC % DrrQuantum = 0
    /\ CreditedL = SchedulingWeight * CreditedC
    /\ RoundComplete => servedL = SchedulingWeight * servedC

\* C19, amended: every complete round credits L with w*q bytes and C with q
\* bytes; a class is served its credit less the deficit it carries into the
\* next round, which is less than s.  After N complete rounds the bytes
\* served are N*w*q - deficit_L and N*q - deficit_C: exactly w : 1 when the
\* packets are one quantum long (9 L packets and 1 C packet per round),
\* and within s of the credit of each class otherwise.
WeightedShare ==
    /\ CreditedC % DrrQuantum = 0
    /\ CreditedL = SchedulingWeight * CreditedC
    /\ RoundComplete =>
           /\ servedL > CreditedL - Head(qL).size
           /\ servedC > CreditedC - Head(qC).size
           /\ source = {Ect1Quantum, NotEctQuantum} =>
                  /\ servedL = SchedulingWeight * servedC
                  /\ servedL = (CreditedC \div DrrQuantum)
                                   * SchedulingWeight * DrrQuantum
                  /\ servedC = (CreditedC \div DrrQuantum) * DrrQuantum

WeightedShareWitness ==
    /\ RoundComplete
    /\ source = {Ect1Quantum, NotEctQuantum}
    /\ servedC = 2 * DrrQuantum
    /\ servedL = 2 * SchedulingWeight * DrrQuantum
    /\ l4sDrops + classicDrops + forcedDrops = 0

\* C20: from construction until disposal exactly one PI2 update event is
\* pending, at start_time first and then at start_time plus a multiple of
\* t_update, and it is never overdue; disposal leaves no event pending, and
\* after it no update runs: base_prob, p_C, p_CL and prev_q keep their values.
TimerLifecycle ==
    [][/\ ~disposed =>
              /\ Cardinality(rtrsEvent) = 1
              /\ \A e \in rtrsEvent :
                     /\ e >= now
                     /\ e >= startTime
                     /\ (e - startTime) % Tupdate = 0
       /\ disposed' => rtrsEvent' = {}
       /\ disposed => UNCHANGED << baseProb, pC, pCL, prevQ, rtrsEvent >>
      ]_vars

\* C21: Recur with likelihood 0 is a no-op on every value the counters
\* count_C and count_L reach: it returns false and leaves the counter as it
\* was.
RecurZeroNoOp ==
    /\ Recur(classicCount, 0) = [count |-> classicCount, hit |-> FALSE]
    /\ Recur(l4sCount, 0) = [count |-> l4sCount, hit |-> FALSE]

\* An L4S packet was dequeued with p_L = 0 on a counter the native LAQM had
\* advanced before.
RecurZeroNoOpWitness ==
    /\ l4sCount > 0
    /\ pL = 0 /\ pCL = 0
    /\ lastL >= 2

\* A quantity of a run, counted in RecurUnit, and its integer part and
\* integer ceiling
InUnits(x) == x \div RecurUnit
Floor(u) == u \div InUnits(One)
Ceil(u) == (u + InUnits(One) - 1) \div InUnits(One)

\* count0 + n * p of a run of n Recur calls, in RecurUnit
RecurTotal == InUnits(recurRun.count0) + recurRun.calls * InUnits(recurRun.p)

\* C22: n consecutive calls Recur(count, p) from a counter value count0 in
\* [0, 1] return true floor(n*p + count0) - floor(count0) times up to the one
\* carry the counter holds: the number of hits differs from it by at most
\* one, it is exactly max(ceil(n*p + count0), 1) - max(ceil(count0), 1)
\* because Recur fires above 1 and not at 1, the counter holds what was added
\* and not yet reported and stays in [0, 1], and the hits are within one of
\* n*p.
RecurTriggerCount ==
    LET stated == Floor(RecurTotal) - Floor(InUnits(recurRun.count0))
    IN  /\ recurRun.hits - stated \in {-1, 0, 1}
        /\ recurRun.hits =
               Max(Ceil(RecurTotal), 1) - Max(Ceil(InUnits(recurRun.count0)), 1)
        /\ recurRun.count % RecurUnit = 0
        /\ InUnits(recurRun.count) = RecurTotal - recurRun.hits * InUnits(One)
        /\ recurRun.count >= 0 /\ recurRun.count <= One
        /\ recurRun.hits * InUnits(One)
               <= recurRun.calls * InUnits(recurRun.p) + InUnits(One)
        /\ recurRun.hits * InUnits(One)
               >= recurRun.calls * InUnits(recurRun.p) - InUnits(One)

RecurTriggerCountWitness ==
    /\ recurRun.calls = MaxCalls
    /\ recurRun.hits >= 2
    /\ recurRun.p \notin {0, One}
    /\ recurRun.count0 > 0
    /\ recurRun.hits = Floor(RecurTotal) - Floor(InUnits(recurRun.count0)) - 1

\* C23: in the normal regime with LAQM enabled, an L4S packet dequeued with a
\* sojourn of at least min_th + range while more than one packet stays behind
\* it in Q_L leaves DequeueFromL4sQueue CE-marked, whatever count_L is.
FullLaqmMarking ==
    (/\ pCL < PLmax
     /\ ~disableLaqm
     /\ Len(qL) > ThLen + 1
     /\ (now - Head(qL).ts) * UsPerMs >= MinTh + Range) =>
        LET r == DequeueFromL4sQueue(Cur, FALSE)
        IN  r.marked /\ r.item.id = Head(qL).id /\ r.item.ecn = CE

\* The discipline has accepted no packet
NoPacketAccepted == offered = 0 /\ qC = << >> /\ qL = << >>

\* C24 as stated: a configuration with MTU < 68, with a number of internal
\* queues other than two, or with queue_limit smaller than the capacity of
\* an internal queue is never initialized and accepts no packet.
ConfigErrorsAsStated ==
    (\/ InitialMtu(config) < MinMtu
     \/ config.nQueues # 2
     \/ QueueLimit < config.maxSizeC
     \/ QueueLimit < config.maxSizeL) =>
        ~initialized /\ NoPacketAccepted

\* C24, amended: a configuration with MTU < 68, with internal queues added
\* whose number is not two (with none added the discipline creates its two),
\* or with an added internal queue whose capacity is smaller than
\* queue_limit, is never initialized and accepts no packet; once
\* initialization has been tried on it the run has ended in a fatal error.
ConfigErrorsFatal ==
    (\/ InitialMtu(config) < MinMtu
     \/ config.nQueues \notin {0, 2}
     \/ config.nQueues = 2 /\ config.maxSizeC < QueueLimit
     \/ config.nQueues = 2 /\ config.maxSizeL < QueueLimit) =>
        /\ ~initialized /\ NoPacketAccepted
        /\ ~ENABLED DoInitialize => aborted # ""

ConfigErrorsFatalWitness ==
    /\ config.nQueues = 2
    /\ config.maxSizeL < QueueLimit
    /\ config.maxSizeC > QueueLimit
    /\ InitialMtu(config) >= MinMtu
    /\ aborted = "The queue disc configuration is not correct"

\* C25: every PendingDequeueCallback call ends normally, by neither the
\* 1000-iteration guard of its staging loop nor the fatal error of the
\* Scheduler, and a Scheduler call with only one class eligible, the other
\* class having a packet too large for the budget, selects L4S or CLASSIC.
PendingTermination ==
    \A pendingBytes \in PendingBytesSet :
        /\ PendingDequeue(Cur, pendingBytes, TRUE).abort
               \notin {"Error: infinite loop", FATAL}
        /\ LET eligible == CanSchedule(Cur, pendingBytes)
               Selects(s) == s.d.abort = "" /\ s.sel \in {L4S, CLASSIC}
           IN  (qL # << >> /\ qC # << >> /\ eligible.first # eligible.second)
                   => Selects(Scheduler(Cur, eligible))

\* C26: in ordinary dequeue, with a packet in a live queue, Scheduler(true,
\* true) selects L4S or CLASSIC, a class whose queue has a packet, without
\* reaching its fatal error, from every reachable state of the deficits and
\* the round mask.
SchedulerTerminates ==
    LET Selects(s) ==
            /\ s.d.abort = ""
            /\ s.sel \in {L4S, CLASSIC}
            /\ s.sel = L4S => qL # << >>
            /\ s.sel = CLASSIC => qC # << >>
    IN  (qC # << >> \/ qL # << >>) =>
            Selects(Scheduler(Cur, [first |-> TRUE, second |-> TRUE]))

\* A round is on in which no head-of-line packet fits its deficit: the
\* Scheduler has to end it and start a new one.
SchedulerTerminatesWitness ==
    /\ handed >= 1
    /\ drrQueues # {}
    /\ qC # << >> /\ Head(qC).size > classicDeficit
    /\ qL # << >> => Head(qL).size > llDeficit

\* The eligibility pairs the Scheduler is called with in a state: both true
\* (DoDequeue), or what CanSchedule answers for a budget with a class eligible
Eligibilities ==
    {[first |-> TRUE, second |-> TRUE]} \cup
    { e \in { CanSchedule(Cur, pendingBytes) : pendingBytes \in PendingBytesSet } :
          e.first \/ e.second }

\* C27: an iteration of the Scheduler in which L is not selected, because L
\* is not eligible, Q_L is empty or the L head exceeds deficit_L, clears L
\* from the round mask, and zeroes deficit_L if Q_L is empty; so a call that
\* selects CLASSIC, which it does in an iteration that did not select L,
\* returns with L out of the mask, and a call in which no class can be
\* served empties the mask and starts a new round instead of failing.
RoundMaskClearing ==
    LET Cleared(s) ==
            /\ s.d.abort = ""
            /\ s.sel = CLASSIC =>
                   /\ L4S \notin s.d.drrQueues
                   /\ qL = << >> => s.d.llDeficit = 0
    IN  (qC # << >> \/ qL # << >>) =>
            \A eligible \in Eligibilities : Cleared(Scheduler(Cur, eligible))

\* The credit of k new rounds, for the numbers of rounds one call can start
RoundCredits(quantum) == { k * quantum : k \in 0..2 }

\* C28: a Scheduler call that returns, returns NONE iff both live queues are
\* empty.  It returns L4S only if L is eligible, Q_L has a packet and the
\* head fits deficit_L, which it decreases by the size of the head.  It
\* returns CLASSIC only under the same condition for C, and only if L did not
\* qualify.  New rounds add w*q to deficit_L and q to deficit_C and set both
\* mask bits, and start only when the round mask is empty: none starts in a
\* call made with a class in the mask that can be served.
SelectionRule ==
    LET QualifiesL(e, deficit) ==
            e.second /\ qL # << >> /\ Head(qL).size <= deficit
        QualifiesC(e, deficit) ==
            e.first /\ qC # << >> /\ Head(qC).size <= deficit
        Rule(e, s) ==
            /\ s.sel = NONE <=> (qC = << >> /\ qL = << >>)
            /\ s.sel = L4S =>
                   /\ e.second /\ qL # << >>
                   /\ s.d.llDeficit >= 0
                   /\ s.d.llDeficit + Head(qL).size - llDeficit
                          \in RoundCredits(DrrQuantum * SchedulingWeight)
                   /\ (drrQueues # {} /\ QualifiesL(e, llDeficit)) =>
                          /\ s.d.llDeficit = llDeficit - Head(qL).size
                          /\ s.d.classicDeficit = classicDeficit
                          /\ s.d.drrQueues = drrQueues
                   /\ drrQueues = {} =>
                          /\ s.d.llDeficit + Head(qL).size - llDeficit
                                 = DrrQuantum * SchedulingWeight
                          /\ s.d.classicDeficit - classicDeficit = DrrQuantum
                          /\ s.d.drrQueues = {L4S, CLASSIC}
            /\ s.sel = CLASSIC =>
                   /\ e.first /\ qC # << >>
                   /\ s.d.classicDeficit >= 0
                   /\ s.d.classicDeficit + Head(qC).size - classicDeficit
                          \in RoundCredits(DrrQuantum)
                   /\ ~QualifiesL(e, s.d.llDeficit)
                   /\ (drrQueues # {} /\ QualifiesC(e, classicDeficit)) =>
                          s.d.classicDeficit = classicDeficit - Head(qC).size
        Returns(e, s) == s.d.abort = "" => Rule(e, s)
    IN  \A eligible \in Eligibilities :
            Returns(eligible, Scheduler(Cur, eligible))

\* A round is on in which both heads fit their deficits.
SelectionRuleWitness ==
    /\ handed >= 1
    /\ drrQueues = {L4S, CLASSIC}
    /\ qL # << >> /\ Head(qL).size <= llDeficit
    /\ qC # << >> /\ Head(qC).size <= classicDeficit

\* C29: whenever the staging loop of a PendingDequeueCallback call has marked
\* an L4S packet, p_CL > 0: the assertion 'There should not be any marks if
\* coupling probability is zero' holds in every call, with LAQM enabled and
\* with LAQM disabled.
MarksImplyCoupling ==
    LET Holds(l) == (l.d.abort = "" /\ l.markedCount > 0) => pCL > 0
    IN  \A pendingBytes \in PendingBytesSet :
            /\ pendingBytes <= GetNBytes(Cur) + WifiOverhead * GetNPackets(Cur)
                   => Holds(PendingLoop(Cur, pendingBytes, 0, 0))
            /\ PendingDequeue(Cur, pendingBytes, TRUE).abort #
                   "There should not be any marks if coupling probability is zero"

\* C30: with p_CL >= 1, DequeueFromL4sQueue first evaluates Recur(count_L,
\* p_C) on the popped packet; on a hit the packet is dropped with
\* UNFORCED_L4S_DROP and the next one is popped, so what is returned is a
\* later packet or nothing; without a hit it evaluates Recur(count_L, p_CL)
\* and returns the packet, CE-marked exactly on a hit.  The LAQM is not
\* consulted (p_L keeps its value), and no packet is both dropped and marked.
OverloadRegime ==
    LET r1 == Recur(l4sCount, pC)
        r2 == Recur(r1.count, pCL)
        DroppedIds(r) == { x.item.id : x \in r.d.dropLog }
        MarkedIds(r) == { x.item.id : x \in r.d.markLog }
        Regime(r) ==
            /\ r.d.abort = ""
            /\ r.d.pL = pL
            /\ \A x \in r.d.dropLog : x.reason = "UNFORCED_L4S_DROP"
            /\ DroppedIds(r) \cap MarkedIds(r) = {}
            /\ r.item.id \notin DroppedIds(r)
            /\ IF r1.hit
               THEN /\ Head(qL).id \in DroppedIds(r)
                    /\ r.item # NoItem =>
                           /\ r.item.id \in Ids(Tail(qL))
                           /\ r.d.qL # Tail(qL)
               ELSE /\ r.d.dropLog = {}
                    /\ r.d.qL = Tail(qL)
                    /\ r.d.l4sCount = r2.count
                    /\ r.item.id = Head(qL).id
                    /\ r.marked = r2.hit
                    /\ r2.hit => r.item.ecn = CE /\ MarkedIds(r) = {r.item.id}
                    /\ ~r2.hit => r.item = Head(qL) /\ MarkedIds(r) = {}
    IN  (pCL >= PLmax /\ qL # << >>) => Regime(DequeueFromL4sQueue(Cur, FALSE))

\* In overload an L4S packet has been handed off and the next one in Q_L is
\* due to be dropped.
OverloadRegimeWitness ==
    /\ pCL >= PLmax
    /\ lastL >= 1
    /\ qL # << >>
    /\ Recur(l4sCount, pC).hit

Pi2UpdateStep ==
    [][ (rtrsEvent' # rtrsEvent /\ ~enableWifiClassicLatencyEstimator) =>
          LET cQ == IF Len(qC) > 0 THEN now - qC[1].ts ELSE 0
              lQ == IF Len(qL) > 0 THEN now - qL[1].ts ELSE 0
              currentQ == IF cQ >= lQ THEN cQ ELSE lQ
              sum == baseProb + AlphaNum * (currentQ - Target)
                              + BetaNum * (currentQ - prevQ)
              clamped == IF sum < 0 THEN 0
                         ELSE IF sum > BaseOne THEN BaseOne ELSE sum
          IN  /\ baseProb' = clamped
              /\ pCL' = (IF K * clamped > BaseOne THEN One
                         ELSE K * clamped * BaseOne)
              /\ pC' = clamped * clamped
              /\ prevQ' = currentQ
              /\ rtrsEvent' = {now + Tupdate}
      ]_vars

\* An update has measured a standing live queue while packets were staged,
\* and has left base_prob strictly inside (0, 1).
Pi2UpdateStepWitness ==
    /\ 0 < baseProb /\ baseProb < BaseOne
    /\ prevQ = Tupdate
    /\ now = Tupdate
    /\ rtrsEvent = {now + Tupdate}
    /\ sC # << >> /\ sL # << >>
    /\ qC = << >>

\* C33: with the Wi-Fi Classic latency estimator enabled and agg_buffer_limit
\* > 0, the PI2 update uses cQ = min(max(c_latency_sample, l_latency_sample),
\* c_bytes_sample * target / agg_buffer_limit), from the samples the most
\* recent pending_dequeue call stored (the head sojourn times and the bytes
\* of Q_C at that call), not from the present head of Q_C; with
\* agg_buffer_limit unset (0) the update aborts with the configuration error
\* and base_prob is not changed.
WifiEstimator ==
    [][ /\ (rtrsEvent' # rtrsEvent /\ enableWifiClassicLatencyEstimator
                                   /\ aggBufferLimit > 0) =>
             LET l1 == IF cLatencySample >= lLatencySample
                       THEN cLatencySample ELSE lLatencySample
                 l2 == (cBytesSample * Target) \div aggBufferLimit
                 cQ == IF l1 <= l2 THEN l1 ELSE l2
                 lQ == IF Len(qL) > 0 THEN now - qL[1].ts ELSE 0
                 currentQ == IF cQ >= lQ THEN cQ ELSE lQ
                 sum == baseProb + AlphaNum * (currentQ - Target)
                                 + BetaNum * (currentQ - prevQ)
                 clamped == IF sum < 0 THEN 0
                            ELSE IF sum > BaseOne THEN BaseOne ELSE sum
             IN  /\ baseProb' = clamped
                 /\ prevQ' = currentQ
        /\ << cLatencySample, lLatencySample, cBytesSample >>' #
               << cLatencySample, lLatencySample, cBytesSample >> =>
             /\ cLatencySample' = (IF Len(qC) > 0 THEN now - qC[1].ts ELSE 0)
             /\ lLatencySample' = (IF Len(qL) > 0 THEN now - qL[1].ts ELSE 0)
             /\ cBytesSample' = GetNBytesOf(qC)
        /\ (enableWifiClassicLatencyEstimator /\ aggBufferLimit = 0) =>
             /\ UNCHANGED << baseProb, pC, pCL, prevQ, rtrsEvent >>
             /\ DualPi2Update =>
                    aborted' =
                      "Configuration error: aggregation buffer limit is not set"
      ]_vars

\* The update of the second period has run on samples stored during the
\* first period, while a Classic packet older than the samples say heads Q_C.
WifiEstimatorWitness ==
    /\ enableWifiClassicLatencyEstimator /\ aggBufferLimit > 0
    /\ now = Tupdate /\ rtrsEvent = {now + Tupdate}
    /\ qC # << >> /\ qL = << >>
    /\ cBytesSample > 0
    /\ prevQ = cLatencySample
    /\ prevQ < now - Head(qC).ts

\* The queue delays Laqm is evaluated at (us): around min_th, inside the
\* ramp, around min_th + range, and far beyond
LaqmDelays == {0, 1, 400, 799, 800, 801, 900, 1000, 1100, 1199, 1200, 1201,
               2000, 100000}

\* C34: LAQM(sojourn) is 0 when LAQM is disabled or sojourn <= min_th,
\* (sojourn - min_th) / range when min_th < sojourn < min_th + range, and 1
\* when sojourn >= min_th + range; the result is always in [0, 1] and is
\* non-decreasing in sojourn.
LaqmRamp ==
    /\ \A s \in LaqmDelays :
          /\ 0 <= LaqmUs(s) /\ LaqmUs(s) <= One
          /\ (disableLaqm \/ s <= MinTh) => LaqmUs(s) = 0
          /\ (~disableLaqm /\ MinTh < s /\ s < MinTh + Range) =>
                 /\ LaqmUs(s) % (One \div Range) = 0
                 /\ LaqmUs(s) \div (One \div Range) = s - MinTh
          /\ (~disableLaqm /\ s >= MinTh + Range) => LaqmUs(s) = One
    /\ \A s, t \in LaqmDelays : s <= t => LaqmUs(s) <= LaqmUs(t)
    /\ qL # << >> => Laqm(now - Head(qL).ts) \in 0..One

\* With LAQM enabled and no coupled probability, a packet that waited 1 ms
\* was dequeued from a standing queue: p_L is the ramp value 1/2.
LaqmRampWitness ==
    /\ ~disableLaqm
    /\ pCL = 0
    /\ pL = One \div 2
    /\ handed >= 1

\* C35: only the PI2 timer callback changes the controller state: every step
\* of enqueue, dequeue and pending_dequeue (every step that is not the timer
\* callback) leaves base_prob, p_C, p_CL and prev_q as they were, so that
\* the AQM decisions between two ticks use the probabilities of the last
\* tick.
ControllerStateFrame ==
    [][ /\ rtrsEvent' = rtrsEvent =>
               UNCHANGED << baseProb, pC, pCL, prevQ >>
        /\ << offered, handed, qC, qL, sC, sL, classicCount, l4sCount, pL,
               cLatencySample, lLatencySample, cBytesSample >>' #
           << offered, handed, qC, qL, sC, sL, classicCount, l4sCount, pL,
              cLatencySample, lLatencySample, cBytesSample >> =>
               UNCHANGED << baseProb, pC, pCL, prevQ, rtrsEvent >>
      ]_vars

\* After a tick that left a positive coupled probability, a batch was staged
\* and an L4S packet was dequeued under that probability.
ControllerStateFrameWitness ==
    /\ 0 < pCL /\ pCL < PLmax
    /\ pL = pCL
    /\ l4sCount > 0
    /\ handed >= 1
    /\ cBytesSample > 0

\* C36: the only change the discipline makes to an ECN codepoint is setting
\* CE on an L4S packet as it leaves Q_L or while it is held in S_L.  A
\* Classic packet is held and handed off with the codepoint it had at
\* enqueue; an L4S packet is held and handed off with its enqueue codepoint
\* or with CE; a packet that is CE stays CE; no other field changes.
EcnMutation ==
    LET AsEnqueued(x) == [x EXCEPT !.ecn = x.ecn0]
        InClassic(q) ==
            \A i \in 1..Len(q) : ~IsL4s(AsEnqueued(q[i])) /\ q[i].ecn = q[i].ecn0
        InL4s(q) ==
            \A i \in 1..Len(q) :
                /\ IsL4s(AsEnqueued(q[i]))
                /\ q[i].ecn = q[i].ecn0 \/ q[i].ecn = CE
                /\ q[i].ecn0 = CE => q[i].ecn = CE
        Held == { AsEnqueued(AllQueued[i]) : i \in 1..Len(AllQueued) }
        Handed(r) ==
            (r.d.abort = "" /\ r.item # NoItem) =>
                /\ AsEnqueued(r.item) \in Held
                /\ r.from = CLASSIC =>
                       ~IsL4s(AsEnqueued(r.item)) /\ r.item.ecn = r.item.ecn0
                /\ r.from = L4S =>
                       /\ IsL4s(AsEnqueued(r.item))
                       /\ r.item.ecn = r.item.ecn0 \/ r.item.ecn = CE
    IN  /\ InClassic(qC) /\ InClassic(sC)
        /\ InL4s(sL)
        /\ InL4s(qL) /\ \A i \in 1..Len(qL) : qL[i].ecn = qL[i].ecn0
        /\ Handed(Dequeue(Cur))

\* An ECT(0) packet has been handed off and an ECT(1) packet is staged with
\* CE set.
EcnMutationWitness ==
    /\ Ect0Big \in source
    /\ lastC >= 1
    /\ \E i \in 1..Len(sL) : sL[i].ecn0 = ECT1 /\ sL[i].ecn = CE

\* C37: peek is consistent with dequeue: whenever the next DoDequeue hands
\* off a packet without an AQM drop intervening, DoPeek returns that packet;
\* DoPeek returns the head of S_L, else the head of S_C, when a staged batch
\* is pending, and returns a packet whenever one of S_L, S_C, Q_C, Q_L holds
\* one.
PeekConsistent ==
    LET Agrees(r, p) ==
            (r.d.abort = "" /\ r.item # NoItem /\ r.d.dropLog = {}) =>
                p.id = r.item.id
    IN  /\ Agrees(Dequeue(Cur), DoPeek(Cur))
        /\ sL # << >> => DoPeek(Cur) = Head(sL)
        /\ (sL = << >> /\ sC # << >>) => DoPeek(Cur) = Head(sC)
        /\ AllQueued # << >> => DoPeek(Cur) # NoItem

\* C38: in every reachable state 0 <= count_C <= 1 and 0 <= count_L <= 1,
\* and every likelihood passed to Recur (p_C, p_CL, p_L) is in [0, 1]; hence
\* a Recur call on either counter leaves it in [0, 1] again: it triggers at
\* most once and leaves no residue above 1.
RecurCounterRange ==
    LET Likelihoods == {pC, pCL, pL}
        InRange(x) == 0 <= x /\ x <= One
        Residue(count, p) ==
            /\ InRange(Recur(count, p).count)
            /\ Recur(count, p).hit =>
                   /\ Recur(count, p).count = count + p - One
                   /\ ~Recur(Recur(count, p).count, 0).hit
    IN  /\ InRange(classicCount) /\ InRange(l4sCount)
        /\ \A p \in Likelihoods :
               /\ InRange(p)
               /\ Residue(classicCount, p)
               /\ Residue(l4sCount, p)

\* Below saturation the last Recur call on count_L has triggered and left a
\* positive residue.
RecurCounterRangeWitness ==
    /\ pCL < PLmax
    /\ 0 < l4sCount /\ l4sCount < pL
    /\ lastL >= 1

\* The size of the largest packet the traffic sources offer
LargestPacket ==
    CHOOSE m \in { k.size : k \in PktKinds } : \A k \in PktKinds : k.size <= m

\* C39 as stated: the deficits are never negative, deficit_L < w*q + (largest
\* packet size) and deficit_C < q + (largest packet size), and a class whose
\* queue is empty when Scheduler runs leaves the call with deficit 0.
DeficitBoundsAsStated ==
    LET Idle(s) ==
            s.d.abort = "" =>
                /\ qL = << >> => s.d.llDeficit = 0
                /\ qC = << >> => s.d.classicDeficit = 0
    IN  /\ 0 <= llDeficit /\ llDeficit < SchedulingWeight * DrrQuantum + LargestPacket
        /\ 0 <= classicDeficit /\ classicDeficit < DrrQuantum + LargestPacket
        /\ (qC # << >> \/ qL # << >>) =>
               \A eligible \in Eligibilities : Idle(Scheduler(Cur, eligible))

\* C39, amended: the deficits are never negative, deficit_L < w*q + (largest
\* packet size) and deficit_C < q + (largest packet size).  A Scheduler call
\* that finds Q_L empty leaves deficit_L = 0.  A call that finds Q_C empty
\* leaves deficit_C = 0 unless it selects L4S: then deficit_C is as the call
\* found it, or, when the call has started a new round (deficit_L was
\* credited), the one quantum q of that round.  A class whose queue is empty
\* holds at most the credit of one round.
DeficitBounds ==
    LET Idle(s) ==
            s.d.abort = "" =>
                /\ qL = << >> => s.d.llDeficit = 0
                /\ (qC = << >> /\ s.sel # L4S) => s.d.classicDeficit = 0
                /\ (qC = << >> /\ s.sel = L4S) =>
                       IF s.d.llDeficit + Head(qL).size > llDeficit
                       THEN s.d.classicDeficit = DrrQuantum
                       ELSE s.d.classicDeficit = classicDeficit
    IN  /\ 0 <= llDeficit /\ llDeficit < SchedulingWeight * DrrQuantum + LargestPacket
        /\ 0 <= classicDeficit /\ classicDeficit < DrrQuantum + LargestPacket
        /\ qL = << >> => llDeficit <= SchedulingWeight * DrrQuantum
        /\ qC = << >> => classicDeficit <= DrrQuantum
        /\ (qC # << >> \/ qL # << >>) =>
               \A eligible \in Eligibilities : Idle(Scheduler(Cur, eligible))

\* Rounds have been started while Q_C was empty: an L4S packet was handed
\* off, Classic holds one quantum, and the next call finds Q_L with a packet.
DeficitBoundsWitness ==
    /\ qC = << >> /\ qL # << >>
    /\ classicDeficit = DrrQuantum
    /\ lastL >= 1 /\ lastC = 0
    /\ llDeficit > LargestPacket

\* C40: every packet that leaves a live queue towards the caller or a
\* staging queue has been charged against the deficit of its class by
\* exactly its own size, also when the AQM drops the head-of-line packet the
\* Scheduler chose and a following packet is returned: what the Scheduler
\* call before it took from the deficit, net of the credit of new rounds, is
\* the size of the packet returned, and within a round the packet returned is
\* no larger than the deficit its class held.
DeficitMatchesService ==
    LET ChargedL(s, r) ==
            (r.d.abort = "" /\ r.item # NoItem) =>
                /\ s.d.llDeficit - llDeficit + r.item.size
                       \in RoundCredits(DrrQuantum * SchedulingWeight)
                /\ s.d.llDeficit + Head(qL).size = llDeficit =>
                       r.item.size <= llDeficit
        ChargedC(s, r) ==
            (r.d.abort = "" /\ r.item # NoItem) =>
                /\ s.d.classicDeficit - classicDeficit + r.item.size
                       \in RoundCredits(DrrQuantum)
                /\ s.d.classicDeficit + Head(qC).size = classicDeficit =>
                       r.item.size <= classicDeficit
        Selected(s) ==
            s.d.abort = "" =>
                /\ s.sel = L4S => ChargedL(s, DequeueFromL4sQueue(s.d, FALSE))
                /\ s.sel = CLASSIC =>
                       ChargedC(s, DequeueFromClassicQueue(s.d, FALSE))
    IN  (qC # << >> \/ qL # << >>) =>
            \A eligible \in Eligibilities : Selected(Scheduler(Cur, eligible))
====
